---- MODULE Spec2Model ----
(***************************************************************************)
(* A model of the streaming TAR decoder of tar-iterator:                   *)
(*   src/src/tar/BufferList.ts   the chained byte queue                    *)
(*   src/src/tar/headers.ts      the 512-byte header codec                 *)
(*   src/src/tar/sparse.ts       the GNU sparse map and SparseStream       *)
(*   src/src/tar/TarExtract.ts   the decoder state machine                 *)
(*                                                                         *)
(* Bytes are integers 0..255.  A header block is parsed from its 512 real  *)
(* bytes.  A Buffer that travels through the queues and streams is kept as *)
(* a sequence of segments, each naming a run of bytes of the archive being *)
(* fed (or a run of zero bytes cut from the sparse zero buffer), so that   *)
(* the identity and the order of every byte are observable.                *)
(***************************************************************************)
EXTENDS Integers, Sequences, FiniteSets, TLC

\* JavaScript null: for an object, for a string (a byte string holding no
\* byte value) and for a key/value record; a null stream reference is 0
NULL == [null |-> TRUE]
NULL_STRING == <<0 - 1>>
NULL_RECORD == <<<<>>>>
\* JavaScript NaN, kept apart from every number the model computes
NaN == 0 - 2147483647
\* the value of buf[i] outside the buffer: equal to no byte
UNDEFINED == 0 - 1

Min(a, b) == IF a <= b THEN a ELSE b

(***************************************************************************)
(* Layout of a header block (constants.ts, spec section 6).                *)
(***************************************************************************)
HEADER_SIZE == 512
BLOCK_SIZE == 512
NAME_OFFSET == 0
NAME_SIZE == 100
MODE_OFFSET == 100
MODE_SIZE == 8
UID_OFFSET == 108
UID_SIZE == 8
GID_OFFSET == 116
GID_SIZE == 8
SIZE_OFFSET == 124
SIZE_SIZE == 12
MTIME_OFFSET == 136
MTIME_SIZE == 12
CHECKSUM_OFFSET == 148
CHECKSUM_SIZE == 8
TYPEFLAG_OFFSET == 156
LINKNAME_OFFSET == 157
LINKNAME_SIZE == 100
MAGIC_OFFSET == 257
VERSION_OFFSET == 263
UNAME_OFFSET == 265
UNAME_SIZE == 32
GNAME_OFFSET == 297
GNAME_SIZE == 32
DEVMAJOR_OFFSET == 329
DEVMAJOR_SIZE == 8
DEVMINOR_OFFSET == 337
DEVMINOR_SIZE == 8
PREFIX_OFFSET == 345
PREFIX_SIZE == 155
ZERO_OFFSET == 48
USTAR_MAGIC == <<117, 115, 116, 97, 114, 0>>
GNU_MAGIC == <<117, 115, 116, 97, 114, 32>>
GNU_VER == <<32, 0>>

TYPE_FILE == 0
TYPE_LINK == 1
TYPE_SYMLINK == 2
TYPE_CHAR_DEVICE == 3
TYPE_BLOCK_DEVICE == 4
TYPE_DIRECTORY == 5
TYPE_FIFO == 6
TYPE_CONTIGUOUS == 7
TYPE_GNU_DUMPDIR == 68
TYPE_GNU_LONG_LINK == 75
TYPE_GNU_LONG_PATH == 76
TYPE_GNU_MULTIVOL == 77
TYPE_GNU_SPARSE == 83
TYPE_GNU_VOLHDR == 86
TYPE_PAX_GLOBAL == 103
TYPE_PAX_HEADER == 120

SPARSE_OFFSET == 386
SPARSE_ENTRY_SIZE == 24
SPARSE_ENTRY_OFFSET_SIZE == 12
SPARSE_ENTRY_NUMBYTES_SIZE == 12
SPARSE_ENTRIES_IN_HEADER == 4
SPARSE_ISEXTENDED_OFFSET == 482
SPARSE_REALSIZE_OFFSET == 483
SPARSE_REALSIZE_SIZE == 12
SPARSE_EXTENDED_ENTRIES == 21
SPARSE_EXTENDED_ISEXTENDED_OFFSET == 504
ZERO_BUFFER_SIZE == 65536

(***************************************************************************)
(* Byte strings.  buf is a sequence of bytes; the code's buf[i] (0-based)  *)
(* is At(buf, i), UNDEFINED outside the buffer.                            *)
(***************************************************************************)
At(buf, i) == IF i >= 0 /\ i < Len(buf) THEN buf[i + 1] ELSE UNDEFINED

\* Buffer.slice(start, end) with both indexes inside 0..length
SliceBytes(buf, start, end) ==
  IF end <= start THEN <<>> ELSE SubSeq(buf, start + 1, Min(end, Len(buf)))

RECURSIVE findNull(_, _, _)
findNull(buf, start, end) ==
  IF start >= end THEN end
  ELSE IF At(buf, start) = 0 THEN start
  ELSE findNull(buf, start + 1, end)

\* the decoded string is kept as its byte string
decodeStr(buf, offset, length) ==
  SliceBytes(buf, offset, findNull(buf, offset, offset + length))

\* sum over i = length-1 .. 1 of byte_i * 256^(length-1-i), accumulated from
\* the most significant byte so that no intermediate power is formed
RECURSIVE parse256From(_, _, _)
parse256From(buf, i, positive) ==
  IF i <= 0 THEN 0
  ELSE parse256From(buf, i - 1, positive) * 256
       + (IF positive THEN buf[i + 1] ELSE 255 - buf[i + 1])

parse256(buf) ==
  LET positive == (buf[1] \div 64) % 2 = 0
      sum == parse256From(buf, Len(buf) - 1, positive)
  IN IF positive THEN sum ELSE (0 - sum)

RECURSIVE SkipWhile32(_, _)
SkipWhile32(val, start) ==
  IF start < Len(val) /\ At(val, start) = 32 THEN SkipWhile32(val, start + 1) ELSE start

RECURSIVE FindOctEnd(_, _)
FindOctEnd(val, end) ==
  IF end < Len(val) /\ At(val, end) # 32 /\ At(val, end) # 0
  THEN FindOctEnd(val, end + 1) ELSE end

RECURSIVE SkipZeros(_, _, _)
SkipZeros(val, start, end) ==
  IF start < end /\ At(val, start) = ZERO_OFFSET THEN SkipZeros(val, start + 1, end) ELSE start

IsWhite(b) == b \in {9, 10, 11, 12, 13, 32}

\* the digits JavaScript's parseInt(str, radix) accepts, most significant first
RECURSIVE DigitRun(_, _, _)
DigitRun(str, i, radix) ==
  IF i < Len(str) /\ At(str, i) >= 48 /\ At(str, i) < 48 + radix
  THEN <<At(str, i) - 48>> \o DigitRun(str, i + 1, radix)
  ELSE <<>>

RECURSIVE DigitsValue(_, _)
DigitsValue(ds, radix) ==
  IF ds = <<>> THEN 0
  ELSE DigitsValue(SubSeq(ds, 1, Len(ds) - 1), radix) * radix + ds[Len(ds)]

RECURSIVE SkipWhite(_, _)
SkipWhite(str, i) ==
  IF i < Len(str) /\ IsWhite(At(str, i)) THEN SkipWhite(str, i + 1) ELSE i

\* JavaScript parseInt on the bytes of an ASCII string
parseInt(str, radix) ==
  LET s == SkipWhite(str, 0)
      neg == At(str, s) = 45
      d0 == IF At(str, s) \in {43, 45} THEN s + 1 ELSE s
      ds == DigitRun(str, d0, radix)
  IN IF ds = <<>> THEN NaN
     ELSE IF neg THEN 0 - DigitsValue(ds, radix) ELSE DigitsValue(ds, radix)

decodeOct(buf, offset, length) ==
  LET val == SliceBytes(buf, offset, offset + length)
  IN IF val # <<>> /\ val[1] >= 128 THEN parse256(val)
     ELSE LET start0 == SkipWhile32(val, 0)
              end == FindOctEnd(val, start0)
              start == SkipZeros(val, start0, end)
          IN IF start = end THEN 0
             ELSE parseInt(SliceBytes(val, start, end), 8)

RECURSIVE SumBytes(_, _, _)
SumBytes(buf, lo, hi) ==
  IF lo >= hi THEN 0
  ELSE IF hi = lo + 1
       THEN (IF lo >= CHECKSUM_OFFSET /\ lo < CHECKSUM_OFFSET + CHECKSUM_SIZE
             THEN 32 ELSE buf[lo + 1])
       ELSE LET mid == (lo + hi) \div 2
            IN SumBytes(buf, lo, mid) + SumBytes(buf, mid, hi)

\* mutation: the checksum field left out of the sum instead of counted as spaces
checksum_skipsField(buf) ==
  SumBytes(buf, 0, CHECKSUM_OFFSET)
  + SumBytes(buf, CHECKSUM_OFFSET + CHECKSUM_SIZE, HEADER_SIZE)

checksum(buf) == SumBytes(buf, 0, HEADER_SIZE)

bufferEquals(buf, offset, expected) ==
  \A i \in 1..Len(expected) : At(buf, offset + i - 1) = expected[i]

\* mutation: every block passes for a ustar header
isUstar_anyMagic(buf) == TRUE

isUstar(buf) == bufferEquals(buf, MAGIC_OFFSET, USTAR_MAGIC)

isGnu(buf) ==
  bufferEquals(buf, MAGIC_OFFSET, GNU_MAGIC) /\ bufferEquals(buf, VERSION_OFFSET, GNU_VER)

toType(flag) ==
  CASE flag = TYPE_FILE -> "file"
    [] flag = TYPE_LINK -> "link"
    [] flag = TYPE_SYMLINK -> "symlink"
    [] flag = TYPE_CHAR_DEVICE -> "character-device"
    [] flag = TYPE_BLOCK_DEVICE -> "block-device"
    [] flag = TYPE_DIRECTORY -> "directory"
    [] flag = TYPE_FIFO -> "fifo"
    [] flag = TYPE_CONTIGUOUS -> "contiguous-file"
    [] flag = TYPE_GNU_LONG_PATH -> "gnu-long-path"
    [] flag = TYPE_GNU_LONG_LINK -> "gnu-long-link-path"
    [] flag = TYPE_GNU_SPARSE -> "gnu-sparse"
    [] flag = TYPE_GNU_DUMPDIR -> "gnu-dumpdir"
    [] flag = TYPE_GNU_MULTIVOL -> "gnu-multivol"
    [] flag = TYPE_GNU_VOLHDR -> "gnu-volume-header"
    [] flag = TYPE_PAX_HEADER -> "pax-header"
    [] flag = TYPE_PAX_GLOBAL -> "pax-global-header"
    [] OTHER -> "null"

\* mutation: a whole block of padding after a size that fills its last block
overflow_wholeBlock(size) == 512 - (size % 512)

\* size & 511 is the low nine bits of ToInt32(size), for a size below 2^31
\* the size itself
overflow(size) ==
  LET remainder == size % 512
  IN IF remainder # 0 THEN 512 - remainder ELSE 0

INVALID_CHECKSUM == "TAR_INVALID_CHECKSUM"
INVALID_FORMAT == "TAR_INVALID_FORMAT"

\* parseHeader: NULL for the empty block, [err |-> code] for a throw,
\* otherwise the header record (told apart by IsHeader / Threw)
parseHeader(buf, opts) ==
  LET rawTypeflag == At(buf, TYPEFLAG_OFFSET)
      typeflag == IF rawTypeflag = 0 THEN 0
                  ELSE IF rawTypeflag >= ZERO_OFFSET /\ rawTypeflag <= ZERO_OFFSET + 7
                       THEN rawTypeflag - ZERO_OFFSET
                       ELSE rawTypeflag
      name0 == decodeStr(buf, NAME_OFFSET, NAME_SIZE)
      computed == checksum(buf)
      stored == decodeOct(buf, CHECKSUM_OFFSET, CHECKSUM_SIZE)
      name == IF isUstar(buf) /\ At(buf, PREFIX_OFFSET) # 0
              THEN decodeStr(buf, PREFIX_OFFSET, PREFIX_SIZE) \o <<47>> \o name0
              ELSE name0
  IN IF computed = 8 * 32 THEN NULL
     ELSE IF computed # stored THEN [err |-> INVALID_CHECKSUM]
     ELSE IF ~isUstar(buf) /\ ~isGnu(buf) /\ ~opts.allowUnknownFormat
          THEN [err |-> INVALID_FORMAT]
     ELSE [name |-> name,
           mode |-> decodeOct(buf, MODE_OFFSET, MODE_SIZE),
           uid |-> decodeOct(buf, UID_OFFSET, UID_SIZE),
           gid |-> decodeOct(buf, GID_OFFSET, GID_SIZE),
           size |-> decodeOct(buf, SIZE_OFFSET, SIZE_SIZE),
           mtime |-> decodeOct(buf, MTIME_OFFSET, MTIME_SIZE),
           type |-> toType(typeflag),
           linkname |-> IF At(buf, LINKNAME_OFFSET) = 0 THEN NULL_STRING
                        ELSE decodeStr(buf, LINKNAME_OFFSET, LINKNAME_SIZE),
           uname |-> decodeStr(buf, UNAME_OFFSET, UNAME_SIZE),
           gname |-> decodeStr(buf, GNAME_OFFSET, GNAME_SIZE),
           devmajor |-> decodeOct(buf, DEVMAJOR_OFFSET, DEVMAJOR_SIZE),
           devminor |-> decodeOct(buf, DEVMINOR_OFFSET, DEVMINOR_SIZE),
           pax |-> NULL_RECORD]

Threw(h) == "err" \in DOMAIN h

IsHeader(h) == "size" \in DOMAIN h

decodeLongPath(buf) == decodeStr(buf, 0, Len(buf))

(***************************************************************************)
(* PAX records.  A Record<string,string> is kept as a sequence of          *)
(* <<key, value>> pairs in insertion order, keys and values being byte     *)
(* strings.                                                                *)
(***************************************************************************)
MaxPaxRecords == 6

RECURSIVE MapIndex(_, _, _)
MapIndex(m, key, i) ==
  IF i > Len(m) THEN 0
  ELSE IF m[i][1] = key THEN i
  ELSE MapIndex(m, key, i + 1)

MapHas(m, key) == MapIndex(m, key, 1) # 0

MapGet(m, key) == IF MapHas(m, key) THEN m[MapIndex(m, key, 1)][2] ELSE NULL_STRING

MapSet(m, key, value) ==
  IF MapHas(m, key)
  THEN [m EXCEPT ![MapIndex(m, key, 1)] = <<key, value>>]
  ELSE Append(m, <<key, value>>)

\* Buffer.slice(start, end) with JavaScript's clamping of the indexes
JsSlice(buf, start, end) ==
  LET n == Len(buf)
      s0 == IF start < 0 THEN start + n ELSE start
      e0 == IF end < 0 THEN end + n ELSE end
      s1 == IF s0 < 0 THEN 0 ELSE Min(s0, n)
      e1 == IF e0 < 0 THEN 0 ELSE Min(e0, n)
  IN SliceBytes(buf, s1, e1)

RECURSIVE FindByte(_, _, _)
FindByte(buf, b, i) ==
  IF i >= Len(buf) THEN Len(buf)
  ELSE IF i >= 0 /\ At(buf, i) = b THEN i
  ELSE FindByte(buf, b, i + 1)

\* String.indexOf('='): -1 when absent
IndexOfEq(record) ==
  LET i == FindByte(record, 61, 0) IN IF i >= Len(record) THEN 0 - 1 ELSE i

\* what stands for the result of a loop that does not end: no Record, whose
\* elements are pairs
DIVERGES == <<<<>>>>

RECURSIVE decodePaxLoop(_, _, _, _)
decodePaxLoop(buf, pos, result, fuel) ==
  IF ~(pos < Len(buf)) THEN result
  ELSE IF fuel = 0 THEN DIVERGES
  ELSE LET spacePos == FindByte(buf, 32, pos)
           len == parseInt(JsSlice(buf, pos, spacePos), 10)
           record == JsSlice(buf, spacePos + 1, pos + len - 1)
           eqPos == IndexOfEq(record)
       IN IF len = NaN \/ len = 0 THEN result
          ELSE IF eqPos = 0 - 1 THEN result
          ELSE decodePaxLoop(buf, pos + len,
                             MapSet(result, SliceBytes(record, 0, eqPos),
                                    SliceBytes(record, eqPos + 1, Len(record))),
                             fuel - 1)

decodePax(buf) == decodePaxLoop(buf, 0, <<>>, MaxPaxRecords)

K_path == <<112, 97, 116, 104>>
K_linkpath == <<108, 105, 110, 107, 112, 97, 116, 104>>
K_size == <<115, 105, 122, 101>>
K_uid == <<117, 105, 100>>
K_gid == <<103, 105, 100>>
K_uname == <<117, 110, 97, 109, 101>>
K_gname == <<103, 110, 97, 109, 101>>
K_mtime == <<109, 116, 105, 109, 101>>

\* `if (pax.key)`: the key is present with a non-empty value
Truthy(pax, key) == MapHas(pax, key) /\ MapGet(pax, key) # <<>>

_applyPaxToHeader(header, pax) ==
  [header EXCEPT
     !.name = IF Truthy(pax, K_path) THEN MapGet(pax, K_path) ELSE @,
     !.linkname = IF Truthy(pax, K_linkpath) THEN MapGet(pax, K_linkpath) ELSE @,
     !.size = IF Truthy(pax, K_size) THEN parseInt(MapGet(pax, K_size), 10) ELSE @,
     !.uid = IF Truthy(pax, K_uid) THEN parseInt(MapGet(pax, K_uid), 10) ELSE @,
     !.gid = IF Truthy(pax, K_gid) THEN parseInt(MapGet(pax, K_gid), 10) ELSE @,
     !.uname = IF Truthy(pax, K_uname) THEN MapGet(pax, K_uname) ELSE @,
     !.gname = IF Truthy(pax, K_gname) THEN MapGet(pax, K_gname) ELSE @,
     !.mtime = IF Truthy(pax, K_mtime) THEN [pax |-> MapGet(pax, K_mtime)] ELSE @]

(***************************************************************************)
(* Buffers in flight.  A segment names the bytes lo..hi-1 of its source:   *)
(* "A" the archive being fed, "Z" the shared zero buffer.  A Buffer is a   *)
(* sequence of non-empty segments in which contiguous archive runs are     *)
(* merged, so two Buffers are equal exactly when they hold the same bytes  *)
(* of the same origin in the same order.                                   *)
(***************************************************************************)
Seg(lo, hi) == IF hi <= lo THEN <<>> ELSE <<[k |-> "A", lo |-> lo, hi |-> hi]>>

Zeros(n) == IF n <= 0 THEN <<>> ELSE <<[k |-> "Z", lo |-> 0, hi |-> n]>>

RECURSIVE BufLen(_)
BufLen(b) == IF b = <<>> THEN 0 ELSE (b[1].hi - b[1].lo) + BufLen(Tail(b))

\* the bytes of a followed by the bytes of b
BufCat(a, b) ==
  IF a = <<>> THEN b
  ELSE IF b = <<>> THEN a
  ELSE LET x == a[Len(a)]
           y == b[1]
       IN IF x.k = "A" /\ y.k = "A" /\ x.hi = y.lo
          THEN SubSeq(a, 1, Len(a) - 1) \o <<[x EXCEPT !.hi = y.hi]>> \o Tail(b)
          ELSE IF x.k = "Z" /\ y.k = "Z"
          THEN SubSeq(a, 1, Len(a) - 1) \o <<[x EXCEPT !.hi = x.hi + (y.hi - y.lo)]>>
               \o Tail(b)
          ELSE a \o b

\* the bytes from..to-1 of one segment (a run of zeros has no position)
SegCut(s, from, to) ==
  IF s.k = "Z" THEN [k |-> "Z", lo |-> 0, hi |-> to - from]
  ELSE [k |-> "A", lo |-> s.lo + from, hi |-> s.lo + to]

\* Buffer.slice(start, end), 0 <= start <= end <= length
RECURSIVE BufSlice(_, _, _)
BufSlice(b, start, end) ==
  IF b = <<>> \/ end <= start THEN <<>>
  ELSE LET s == b[1]
           n == s.hi - s.lo
       IN IF start >= n THEN BufSlice(Tail(b), start - n, end - n)
          ELSE BufCat(<<SegCut(s, start, Min(end, n))>>, BufSlice(Tail(b), 0, end - n))

\* the byte values of a Buffer, bytes being the archive it was cut from
RECURSIVE BufBytes(_, _)
BufBytes(b, bytes) ==
  IF b = <<>> THEN <<>>
  ELSE (IF b[1].k = "A" THEN SubSeq(bytes, b[1].lo + 1, b[1].hi)
        ELSE [i \in 1..(b[1].hi - b[1].lo) |-> 0])
       \o BufBytes(Tail(b), bytes)

(***************************************************************************)
(* BufferList (src/src/tar/BufferList.ts): the linked list of appended     *)
(* chunks, head first, and the separately kept length counter.             *)
(***************************************************************************)
NewBufferList == [chunks |-> <<>>, length |-> 0]

\* mutation: the chunk is put in front of the list
append_front(list, buf) ==
  [chunks |-> <<buf>> \o list.chunks, length |-> list.length + BufLen(buf)]

append(list, buf) ==
  [chunks |-> Append(list.chunks, buf), length |-> list.length + BufLen(buf)]

has(list, n) == list.length >= n

RECURSIVE consumeLoop(_, _, _)
consumeLoop(list, remaining, result) ==
  IF remaining > 0 /\ list.chunks # <<>>
  THEN LET chunk == Head(list.chunks)
           available == BufLen(chunk)
       IN IF available <= remaining
          THEN consumeLoop([chunks |-> Tail(list.chunks),
                            length |-> list.length - available],
                           remaining - available, BufCat(result, chunk))
          ELSE consumeLoop([chunks |-> <<BufSlice(chunk, remaining, available)>>
                                        \o Tail(list.chunks),
                            length |-> list.length - remaining],
                           0, BufCat(result, BufSlice(chunk, 0, remaining)))
  ELSE [list |-> list, data |-> result, threw |-> FALSE]

\* mutation: a consume beyond the length takes what there is
consume_takesAll(list, n) ==
  IF n = 0 THEN [list |-> list, data |-> <<>>, threw |-> FALSE]
  ELSE consumeLoop(list, n, <<>>)

consume(list, n) ==
  IF n > list.length THEN [list |-> list, data |-> <<>>, threw |-> TRUE]
  ELSE IF n = 0 THEN [list |-> list, data |-> <<>>, threw |-> FALSE]
  ELSE consumeLoop(list, n, <<>>)

clear(list) == NewBufferList

(***************************************************************************)
(* Entry streams.  EntryStream.ts is not part of the sources at hand: a    *)
(* stream is modelled by what TarExtract and SparseStream use of it, the   *)
(* bytes pushed so far (data), the ended flag, and the errors emitted on   *)
(* it.  A SparseStream carries its reconstruction state in addition.       *)
(***************************************************************************)
NewEntryStream ==
  [data |-> <<>>, ended |-> FALSE, errors |-> <<>>, sparse |-> FALSE,
   entries |-> <<>>, realSize |-> 0, currentEntry |-> 0,
   virtualPosition |-> 0, entryBytesRemaining |-> 0]

EntryStream_push(s, data) == [s EXCEPT !.data = BufCat(@, data)]

EntryStream_end(s) == [s EXCEPT !.ended = TRUE]

NewSparseStream(entries, realSize) ==
  [data |-> <<>>, ended |-> FALSE, errors |-> <<>>, sparse |-> TRUE,
   entries |-> entries, realSize |-> realSize, currentEntry |-> 0,
   virtualPosition |-> 0,
   entryBytesRemaining |-> IF Len(entries) > 0 THEN entries[1].numbytes ELSE 0]

RECURSIVE _emitZeros(_, _)
_emitZeros(s, remaining) ==
  IF remaining > 0
  THEN LET toEmit == Min(remaining, ZERO_BUFFER_SIZE)
       IN _emitZeros(EntryStream_push(s, Zeros(toEmit)), remaining - toEmit)
  ELSE s

RECURSIVE SparseStream_pushLoop(_, _, _)
SparseStream_pushLoop(s, data, dataOffset) ==
  IF dataOffset < BufLen(data) /\ s.currentEntry < Len(s.entries)
  THEN LET entry == s.entries[s.currentEntry + 1]
           s1 == IF s.virtualPosition < entry.offset
                 THEN [_emitZeros(s, entry.offset - s.virtualPosition)
                         EXCEPT !.virtualPosition = entry.offset]
                 ELSE s
           toEmit == Min(s1.entryBytesRemaining, BufLen(data) - dataOffset)
           s2 == IF toEmit > 0
                 THEN [EntryStream_push(s1, BufSlice(data, dataOffset, dataOffset + toEmit))
                         EXCEPT !.virtualPosition = @ + toEmit,
                                !.entryBytesRemaining = @ - toEmit]
                 ELSE s1
           off2 == IF toEmit > 0 THEN dataOffset + toEmit ELSE dataOffset
           s3 == IF s2.entryBytesRemaining <= 0
                 THEN [s2 EXCEPT !.currentEntry = @ + 1,
                                 !.entryBytesRemaining =
                                    IF s2.currentEntry + 1 < Len(s2.entries)
                                    THEN s2.entries[s2.currentEntry + 2].numbytes
                                    ELSE @]
                 ELSE s2
       IN SparseStream_pushLoop(s3, data, off2)
  ELSE s

SparseStream_push(s, data) ==
  IF s.ended THEN s ELSE SparseStream_pushLoop(s, data, 0)

\* mutation: the stream ends without the zeros behind the last region
SparseStream_end_noTail(s) ==
  IF s.ended THEN s ELSE EntryStream_end(s)

SparseStream_end(s) ==
  IF s.ended THEN s
  ELSE IF s.virtualPosition < s.realSize
       THEN EntryStream_end([_emitZeros(s, s.realSize - s.virtualPosition)
                               EXCEPT !.virtualPosition = s.realSize])
       ELSE EntryStream_end(s)

Stream_push(s, data) ==
  IF s.sparse THEN SparseStream_push(s, data) ELSE EntryStream_push(s, data)

Stream_end(s) == IF s.sparse THEN SparseStream_end(s) ELSE EntryStream_end(s)

(***************************************************************************)
(* GNU sparse maps (src/src/tar/sparse.ts).                                *)
(***************************************************************************)
RECURSIVE parseSparseEntries(_, _, _, _)
parseSparseEntries(buf, startOffset, maxEntries, i) ==
  IF i >= maxEntries THEN <<>>
  ELSE LET entryOffset == startOffset + i * SPARSE_ENTRY_SIZE
           offset == decodeOct(buf, entryOffset, SPARSE_ENTRY_OFFSET_SIZE)
           numbytes == decodeOct(buf, entryOffset + SPARSE_ENTRY_OFFSET_SIZE,
                                 SPARSE_ENTRY_NUMBYTES_SIZE)
       IN IF offset = 0 /\ numbytes = 0 THEN <<>>
          ELSE <<[offset |-> offset, numbytes |-> numbytes]>>
               \o parseSparseEntries(buf, startOffset, maxEntries, i + 1)

parseGnuSparseHeader(headerBuf) ==
  [realSize |-> decodeOct(headerBuf, SPARSE_REALSIZE_OFFSET, SPARSE_REALSIZE_SIZE),
   entries |-> parseSparseEntries(headerBuf, SPARSE_OFFSET, SPARSE_ENTRIES_IN_HEADER, 0),
   isExtended |-> At(headerBuf, SPARSE_ISEXTENDED_OFFSET) # 0]

parseGnuSparseExtended(extBuf) ==
  [entries |-> parseSparseEntries(extBuf, 0, SPARSE_EXTENDED_ENTRIES, 0),
   isExtended |-> At(extBuf, SPARSE_EXTENDED_ISEXTENDED_OFFSET) # 0]

RECURSIVE sparseDataSize(_)
sparseDataSize(entries) ==
  IF entries = <<>> THEN 0
  ELSE sparseDataSize(SubSeq(entries, 1, Len(entries) - 1)) + entries[Len(entries)].numbytes

(***************************************************************************)
(* TarExtract (src/src/tar/TarExtract.ts).  The decoder object is one      *)
(* record.  Besides the fields of the class it carries what the outside    *)
(* sees of it: the stream objects it created (streams, a stream reference  *)
(* being an index, 0 for null), the events emitted on the decoder (events),*)
(* whether an 'entry' listener is attached (listening), how many entries   *)
(* were emitted (nentries), which of their next() tokens were called       *)
(* (advanced), the blocks it consumed as headers (headerReads), and        *)
(* whether a consume call of it ever threw (underflow), and the counters   *)
(* of bytes to be read as they were whenever it consumed a header block    *)
(* (headerCounters).                                                       *)
(***************************************************************************)
STATE_HEADER == 0
STATE_FILE_DATA == 1
STATE_PADDING == 2
STATE_END == 3
STATE_GNU_LONG_PATH == 4
STATE_GNU_LONG_LINK == 5
STATE_PAX_HEADER == 6
STATE_SPARSE_EXTENDED == 7
STATE_SPARSE_DATA == 8

NewTarExtract(options, listening) ==
  [buffer |-> NewBufferList, state |-> STATE_HEADER, options |-> options,
   header |-> NULL, entryStream |-> 0, entryRemaining |-> 0, paddingRemaining |-> 0,
   locked |-> FALSE, pending |-> FALSE, finished |-> FALSE, finishEmitted |-> FALSE,
   pendingEntry |-> NULL,
   gnuLongPath |-> NULL_STRING, gnuLongLink |-> NULL_STRING,
   paxHeader |-> NULL_RECORD, paxGlobal |-> <<>>,
   extensionData |-> <<>>, extensionRemaining |-> 0,
   sparseInfo |-> NULL, sparseStream |-> 0, sparseDataRemaining |-> 0,
   streams |-> <<>>, events |-> <<>>, listening |-> listening,
   nentries |-> 0, advanced |-> {}, headerReads |-> <<>>, underflow |-> FALSE,
   headerCounters |-> {}]

emit(t, ev) == [t EXCEPT !.events = Append(@, ev)]

AfterData(t) == IF t.paddingRemaining > 0 THEN STATE_PADDING ELSE STATE_HEADER

_emitError(t, err) ==
  LET activeStream == IF t.entryStream # 0 THEN t.entryStream ELSE t.sparseStream
      t1 == IF activeStream # 0 /\ ~t.streams[activeStream].ended
            THEN [t EXCEPT !.streams[activeStream].errors = Append(@, err)]
            ELSE t
  IN emit(t1, [e |-> "error", code |-> err])

\* mutation: 'finish' only for a decoder that saw the terminator
_maybeFinish_onlyEnd(t) ==
  IF t.finishEmitted THEN t
  ELSE IF t.pendingEntry # NULL THEN t
  ELSE IF ~t.finished THEN t
  ELSE IF t.locked THEN t
  ELSE IF t.state = STATE_END
       THEN emit([t EXCEPT !.finishEmitted = TRUE], [e |-> "finish"])
       ELSE t

_maybeFinish(t) ==
  IF t.finishEmitted THEN t
  ELSE IF t.pendingEntry # NULL THEN t
  ELSE IF ~t.finished THEN t
  ELSE IF t.locked THEN t
  ELSE IF t.state = STATE_HEADER \/ t.state = STATE_END
       THEN emit([t EXCEPT !.state = STATE_END, !.finishEmitted = TRUE], [e |-> "finish"])
       ELSE t

\* the header object is shared by this.header, the local and the pending entry:
\* the result carries the mutated header next to the decoder
WithPaxHeader(t, h) ==
  IF t.paxHeader # NULL_RECORD
  THEN [_applyPaxToHeader(h, t.paxHeader) EXCEPT !.pax = t.paxHeader]
  ELSE h

WithLongNames(t, h) ==
  [h EXCEPT !.name = IF t.gnuLongPath # NULL_STRING THEN t.gnuLongPath ELSE @,
            !.linkname = IF t.gnuLongLink # NULL_STRING THEN t.gnuLongLink ELSE @]

\* mutation: the pending extensions are kept after they were applied
ExtensionsApplied_keeps(t, h) ==
  [t |-> [t EXCEPT !.header = h], header |-> h]

ExtensionsApplied(t, h) ==
  [t |-> [t EXCEPT !.paxHeader = NULL_RECORD, !.gnuLongPath = NULL_STRING,
                   !.gnuLongLink = NULL_STRING, !.header = h],
   header |-> h]

\* mutation: the PAX attributes applied after the GNU long names
_applyExtensions_paxLast(t, header) ==
  ExtensionsApplied(t, WithPaxHeader(t, WithLongNames(t,
                          _applyPaxToHeader(header, t.paxGlobal))))

_applyExtensions(t, header) ==
  ExtensionsApplied(t, WithLongNames(t, WithPaxHeader(t,
                          _applyPaxToHeader(header, t.paxGlobal))))

RECURSIVE ConcatBuffers(_)
ConcatBuffers(buffers) ==
  IF buffers = <<>> THEN <<>>
  ELSE BufCat(ConcatBuffers(SubSeq(buffers, 1, Len(buffers) - 1)), buffers[Len(buffers)])

\* mutation: the decoded global map replaces the accumulated one
MergeInto_replaces(target, source, i) == source

RECURSIVE MergeInto(_, _, _)
MergeInto(target, source, i) ==
  IF i > Len(source) THEN target
  ELSE MergeInto(MapSet(target, source[i][1], source[i][2]), source, i + 1)

ExtensionFinalized(t, combined) ==
  CASE t.state = STATE_GNU_LONG_PATH ->
         [t EXCEPT !.extensionData = <<>>, !.gnuLongPath = decodeLongPath(combined)]
    [] t.state = STATE_GNU_LONG_LINK ->
         [t EXCEPT !.extensionData = <<>>, !.gnuLongLink = decodeLongPath(combined)]
    [] t.state = STATE_PAX_HEADER ->
         IF t.header # NULL /\ t.header.type = "pax-global-header"
         THEN [t EXCEPT !.extensionData = <<>>,
                        !.paxGlobal = MergeInto(@, decodePax(combined), 1)]
         ELSE [t EXCEPT !.extensionData = <<>>, !.paxHeader = decodePax(combined)]
    [] OTHER -> [t EXCEPT !.extensionData = <<>>]

_finalizeExtension(t, env) ==
  ExtensionFinalized(t, BufBytes(ConcatBuffers(t.extensionData), env.bytes))

ExtensionDataRead(t, env) ==
  IF t.extensionRemaining <= 0
  THEN [t |-> [_finalizeExtension(t, env) EXCEPT !.state = AfterData(t)], cont |-> TRUE]
  ELSE [t |-> t, cont |-> TRUE]

ExtensionDataConsumed(t, toRead, r, env) ==
  ExtensionDataRead([t EXCEPT !.buffer = r.list, !.underflow = @ \/ r.threw,
                              !.extensionRemaining = @ - toRead,
                              !.extensionData = Append(@, r.data)], env)

_processExtensionData(t, env) ==
  IF t.extensionRemaining <= 0 THEN ExtensionDataRead(t, env)
  ELSE IF t.buffer.length = 0 THEN [t |-> t, cont |-> FALSE]
  ELSE ExtensionDataConsumed(t, Min(t.extensionRemaining, t.buffer.length),
                             consume(t.buffer, Min(t.extensionRemaining, t.buffer.length)),
                             env)

\* mutation: the stream reference dropped without ending the stream
EndEntryStream_leavesOpen(t) ==
  IF t.entryStream # 0 THEN [t EXCEPT !.entryStream = 0] ELSE t

EndEntryStream(t) ==
  IF t.entryStream # 0
  THEN [t EXCEPT !.streams[t.entryStream] = Stream_end(@), !.entryStream = 0]
  ELSE t

FileDataRead(t) ==
  IF t.entryRemaining <= 0
  THEN [t |-> [EndEntryStream(t) EXCEPT !.state = AfterData(t)], cont |-> TRUE]
  ELSE [t |-> t, cont |-> TRUE]

FileDataConsumed(t, toRead, r) ==
  FileDataRead([t EXCEPT !.buffer = r.list, !.underflow = @ \/ r.threw,
                         !.entryRemaining = @ - toRead,
                         !.streams = IF t.entryStream # 0
                                     THEN [@ EXCEPT ![t.entryStream] = Stream_push(@, r.data)]
                                     ELSE @])

\* mutation: the padding read together with the payload
_processFileData_readsPadding(t) ==
  IF t.entryRemaining <= 0 THEN FileDataRead(t)
  ELSE IF t.buffer.length = 0 THEN [t |-> t, cont |-> FALSE]
  ELSE FileDataConsumed(t, Min(t.entryRemaining + t.paddingRemaining, t.buffer.length),
                        consume(t.buffer, Min(t.entryRemaining + t.paddingRemaining,
                                              t.buffer.length)))

_processFileData(t) ==
  IF t.entryRemaining <= 0 THEN FileDataRead(t)
  ELSE IF t.buffer.length = 0 THEN [t |-> t, cont |-> FALSE]
  ELSE FileDataConsumed(t, Min(t.entryRemaining, t.buffer.length),
                        consume(t.buffer, Min(t.entryRemaining, t.buffer.length)))

\* mutation: the padding read without being counted off
PaddingConsumed_uncounted(t, toSkip, r) ==
  [t |-> [t EXCEPT !.buffer = r.list, !.underflow = @ \/ r.threw,
                   !.state = IF t.paddingRemaining - toSkip <= 0 THEN STATE_HEADER ELSE @],
   cont |-> TRUE]

PaddingConsumed(t, toSkip, r) ==
  [t |-> [t EXCEPT !.buffer = r.list, !.underflow = @ \/ r.threw,
                   !.paddingRemaining = @ - toSkip,
                   !.state = IF t.paddingRemaining - toSkip <= 0 THEN STATE_HEADER ELSE @],
   cont |-> TRUE]

\* mutation: the header state entered after the first piece of the padding
_processPadding_forgetsRest(t) ==
  IF t.paddingRemaining <= 0
  THEN [t |-> [t EXCEPT !.state = STATE_HEADER], cont |-> TRUE]
  ELSE IF t.buffer.length = 0 THEN [t |-> t, cont |-> FALSE]
  ELSE [t |-> [t EXCEPT !.buffer = consume(t.buffer, Min(t.paddingRemaining, t.buffer.length)).list,
                        !.paddingRemaining = @ - Min(t.paddingRemaining, t.buffer.length),
                        !.state = STATE_HEADER],
        cont |-> TRUE]

_processPadding(t) ==
  IF t.paddingRemaining <= 0
  THEN [t |-> [t EXCEPT !.state = STATE_HEADER], cont |-> TRUE]
  ELSE IF t.buffer.length = 0 THEN [t |-> t, cont |-> FALSE]
  ELSE PaddingConsumed(t, Min(t.paddingRemaining, t.buffer.length),
                       consume(t.buffer, Min(t.paddingRemaining, t.buffer.length)))

SparseEntryCreated(t, remaining) ==
  IF remaining = 0
  THEN [t |-> [t EXCEPT !.streams[t.sparseStream] = Stream_end(@),
                        !.sparseStream = 0,
                        !.sparseInfo = NULL,
                        !.state = AfterData(t)],
        cont |-> FALSE]
  ELSE [t |-> [t EXCEPT !.state = STATE_SPARSE_DATA], cont |-> FALSE]

SparseEntry(t, h, remaining) ==
  SparseEntryCreated(
    [t EXCEPT !.sparseDataRemaining = remaining,
              !.paddingRemaining = overflow(remaining),
              !.streams = Append(@, NewSparseStream(t.sparseInfo.entries,
                                                    t.sparseInfo.realSize)),
              !.sparseStream = Len(t.streams) + 1,
              !.locked = TRUE,
              !.pending = TRUE,
              !.header = h,
              !.pendingEntry = [header |-> h, stream |-> Len(t.streams) + 1]],
    remaining)

\* mutation: the entry keeps the type of the sparse header
_setupSparseEntry_keepsType(t, header) ==
  IF t.sparseInfo = NULL
  THEN [t |-> [_emitError(t, "Sparse info not available") EXCEPT !.state = STATE_END],
        cont |-> FALSE]
  ELSE SparseEntry(t, header, sparseDataSize(t.sparseInfo.entries))

_setupSparseEntry(t, header) ==
  IF t.sparseInfo = NULL
  THEN [t |-> [_emitError(t, "Sparse info not available") EXCEPT !.state = STATE_END],
        cont |-> FALSE]
  ELSE SparseEntry(t, [header EXCEPT !.type = "file"], sparseDataSize(t.sparseInfo.entries))

SparseExtendedMerged(t, ext) ==
  IF t.sparseInfo # NULL /\ ext.isExtended THEN [t |-> t, cont |-> TRUE]
  ELSE IF t.header # NULL THEN _setupSparseEntry(t, t.header)
  ELSE [t |-> [_emitError(t, "Header not available for sparse entry")
                 EXCEPT !.state = STATE_END],
        cont |-> FALSE]

\* mutation: the entries of an extended block put in front of the map
SparseExtendedParsed_prepends(t, ext) ==
  SparseExtendedMerged(IF t.sparseInfo # NULL
                       THEN [t EXCEPT !.sparseInfo.entries = ext.entries \o @]
                       ELSE t,
                       ext)

SparseExtendedParsed(t, ext) ==
  SparseExtendedMerged(IF t.sparseInfo # NULL
                       THEN [t EXCEPT !.sparseInfo.entries = @ \o ext.entries]
                       ELSE t,
                       ext)

SparseExtendedConsumed(t, r, env) ==
  SparseExtendedParsed([t EXCEPT !.buffer = r.list, !.underflow = @ \/ r.threw],
                       parseGnuSparseExtended(BufBytes(r.data, env.bytes)))

_processSparseExtended(t, env) ==
  IF ~has(t.buffer, BLOCK_SIZE) THEN [t |-> t, cont |-> FALSE]
  ELSE SparseExtendedConsumed(t, consume(t.buffer, BLOCK_SIZE), env)

EndSparseStream(t) ==
  IF t.sparseStream # 0
  THEN [t EXCEPT !.streams[t.sparseStream] = Stream_end(@), !.sparseStream = 0]
  ELSE t

SparseDataRead(t) ==
  IF t.sparseDataRemaining <= 0
  THEN [t |-> [EndSparseStream(t) EXCEPT !.sparseInfo = NULL, !.state = AfterData(t)],
        cont |-> TRUE]
  ELSE [t |-> t, cont |-> TRUE]

SparseDataConsumed(t, toRead, r) ==
  SparseDataRead([t EXCEPT !.buffer = r.list, !.underflow = @ \/ r.threw,
                           !.sparseDataRemaining = @ - toRead,
                           !.streams = IF t.sparseStream # 0
                                       THEN [@ EXCEPT ![t.sparseStream] = Stream_push(@, r.data)]
                                       ELSE @])

_processSparseData(t) ==
  IF t.sparseDataRemaining <= 0 THEN SparseDataRead(t)
  ELSE IF t.buffer.length = 0 THEN [t |-> t, cont |-> FALSE]
  ELSE SparseDataConsumed(t, Min(t.sparseDataRemaining, t.buffer.length),
                          consume(t.buffer, Min(t.sparseDataRemaining, t.buffer.length)))

BeginExtension(t, header, state) ==
  [t |-> [t EXCEPT !.extensionRemaining = header.size,
                   !.extensionData = <<>>,
                   !.state = state],
   cont |-> TRUE]

\* the entry's stream is created, the decoder locked and the entry parked
EntryCreated(t) ==
  IF t.entryRemaining = 0
  THEN [t |-> [EndEntryStream(t) EXCEPT !.state = AfterData(t)], cont |-> FALSE]
  ELSE [t |-> [t EXCEPT !.state = STATE_FILE_DATA], cont |-> FALSE]

\* mutation: entryRemaining taken from the size field, not from the resolved size
EntryHeader_rawSize(t, a) ==
  EntryCreated([a.t EXCEPT !.entryRemaining = t.header.size,
                           !.streams = Append(@, NewEntryStream),
                           !.entryStream = Len(t.streams) + 1,
                           !.locked = TRUE,
                           !.pending = TRUE,
                           !.pendingEntry = [header |-> a.header,
                                             stream |-> Len(t.streams) + 1]])

\* a regular entry: a is what _applyExtensions returned for the header of t
EntryHeader(t, a) ==
  EntryCreated([a.t EXCEPT !.entryRemaining = a.header.size,
                           !.streams = Append(@, NewEntryStream),
                           !.entryStream = Len(t.streams) + 1,
                           !.locked = TRUE,
                           !.pending = TRUE,
                           !.pendingEntry = [header |-> a.header,
                                             stream |-> Len(t.streams) + 1]])

\* an old-GNU sparse header: info is its sparse map, a the resolved header
SparseHeader(info, a) ==
  IF info.isExtended
  THEN [t |-> [a.t EXCEPT !.header = [a.header EXCEPT !.size = info.realSize],
                          !.state = STATE_SPARSE_EXTENDED],
        cont |-> TRUE]
  ELSE _setupSparseEntry([a.t EXCEPT !.header = [a.header EXCEPT !.size = info.realSize]],
                         [a.header EXCEPT !.size = info.realSize])

\* the header t1.header passed the checks: extension, sparse or entry header
HeaderAccepted(t1, headerBuf, header) ==
  CASE header.type = "gnu-long-path" ->
         BeginExtension(t1, header, STATE_GNU_LONG_PATH)
    [] header.type = "gnu-long-link-path" ->
         BeginExtension(t1, header, STATE_GNU_LONG_LINK)
    [] header.type = "pax-header" ->
         BeginExtension(t1, header, STATE_PAX_HEADER)
    [] header.type = "pax-global-header" ->
         BeginExtension(t1, header, STATE_PAX_HEADER)
    [] header.type = "gnu-sparse" ->
         SparseHeader(parseGnuSparseHeader(headerBuf),
                      _applyExtensions([t1 EXCEPT !.sparseInfo =
                                          parseGnuSparseHeader(headerBuf)], header))
    [] OTHER -> EntryHeader(t1, _applyExtensions(t1, header))

\* mutation: the decoder stays in the header state after parseHeader threw
HeaderParsed_staysOpen(t0, headerBuf, header) ==
  IF Threw(header)
  THEN [t |-> _emitError(t0, header.err), cont |-> FALSE]
  ELSE IF header = NULL
  THEN [t |-> emit([t0 EXCEPT !.state = STATE_END], [e |-> "finish"]), cont |-> FALSE]
  ELSE HeaderAccepted([t0 EXCEPT !.header = header,
                                 !.paddingRemaining = overflow(header.size)],
                      headerBuf, header)

\* the block headerBuf was consumed (t0) and parsed (header)
HeaderParsed(t0, headerBuf, header) ==
  IF Threw(header)
  THEN [t |-> [_emitError(t0, header.err) EXCEPT !.state = STATE_END], cont |-> FALSE]
  ELSE IF header = NULL
  THEN [t |-> emit([t0 EXCEPT !.state = STATE_END], [e |-> "finish"]), cont |-> FALSE]
  ELSE HeaderAccepted([t0 EXCEPT !.header = header,
                                 !.paddingRemaining = overflow(header.size)],
                      headerBuf, header)

\* the four counters of bytes still to be read
Counters(t) ==
  <<t.extensionRemaining, t.paddingRemaining, t.entryRemaining, t.sparseDataRemaining>>

HeaderConsumed(t, r, headerBuf) ==
  HeaderParsed([t EXCEPT !.buffer = r.list, !.underflow = @ \/ r.threw,
                         !.headerReads = Append(@, r.data),
                         !.headerCounters = @ \cup {Counters(t)}],
               headerBuf, parseHeader(headerBuf, t.options))

HeaderBlock(t, r, env) == HeaderConsumed(t, r, BufBytes(r.data, env.bytes))

_processHeader(t, env) ==
  IF ~has(t.buffer, HEADER_SIZE) THEN [t |-> t, cont |-> FALSE]
  ELSE HeaderBlock(t, consume(t.buffer, HEADER_SIZE), env)

\* mutation: header blocks parsed without regard to the lock
ProcessStep_ignoresLock(t, env) ==
  CASE t.state = STATE_HEADER -> _processHeader(t, env)
    [] t.state = STATE_FILE_DATA -> _processFileData(t)
    [] t.state = STATE_PADDING -> _processPadding(t)
    [] t.state \in {STATE_GNU_LONG_PATH, STATE_GNU_LONG_LINK, STATE_PAX_HEADER} ->
         _processExtensionData(t, env)
    [] t.state = STATE_SPARSE_EXTENDED -> _processSparseExtended(t, env)
    [] t.state = STATE_SPARSE_DATA -> _processSparseData(t)
    [] OTHER -> [t |-> t, cont |-> FALSE]

\* one turn of the switch in _process
ProcessStep(t, env) ==
  CASE t.state = STATE_HEADER ->
         IF t.locked THEN [t |-> t, cont |-> FALSE] ELSE _processHeader(t, env)
    [] t.state = STATE_FILE_DATA -> _processFileData(t)
    [] t.state = STATE_PADDING -> _processPadding(t)
    [] t.state \in {STATE_GNU_LONG_PATH, STATE_GNU_LONG_LINK, STATE_PAX_HEADER} ->
         _processExtensionData(t, env)
    [] t.state = STATE_SPARSE_EXTENDED -> _processSparseExtended(t, env)
    [] t.state = STATE_SPARSE_DATA -> _processSparseData(t)
    [] OTHER -> [t |-> t, cont |-> FALSE]

\* the while loop of _process: r is the outcome of one turn
RECURSIVE ProcessLoop(_, _)
Continue(r, env) == IF r.cont THEN ProcessLoop(r.t, env) ELSE r.t

ProcessLoop(t, env) == Continue(ProcessStep(t, env), env)

_process(t, env) == IF t.pending THEN t ELSE ProcessLoop(t, env)

\* resume() emits the pending entry to the 'entry' listener; the listener of
\* the k-th entry calls next() inside the callback when k is in env.sync
RECURSIVE resume(_, _)
RECURSIVE _unlock(_, _)
\* the 'entry' event was emitted (t): the callback ran, then resume() goes on
Emitted(t, env) ==
  _maybeFinish(_process(IF t.nentries \in env.sync
                        THEN _unlock([t EXCEPT !.advanced = @ \cup {t.nentries}], env)
                        ELSE t,
                        env))

\* mutation: the pending entry emitted whether or not a listener is attached
resume_withoutListener(t, env) ==
  IF t.pendingEntry # NULL
  THEN Emitted(emit([t EXCEPT !.pendingEntry = NULL, !.pending = FALSE,
                              !.nentries = t.nentries + 1],
                    [e |-> "entry", header |-> t.pendingEntry.header,
                     stream |-> t.pendingEntry.stream]),
               env)
  ELSE t

resume(t, env) ==
  IF t.pendingEntry # NULL /\ t.listening
  THEN Emitted(emit([t EXCEPT !.pendingEntry = NULL, !.pending = FALSE,
                              !.nentries = t.nentries + 1],
                    [e |-> "entry", header |-> t.pendingEntry.header,
                     stream |-> t.pendingEntry.stream]),
               env)
  ELSE t

\* mutation: the lock cleared without re-entering the processing loop
_unlock_noProcess(t, env) ==
  _maybeFinish(resume([t EXCEPT !.locked = FALSE, !.pending = FALSE], env))

_unlock(t, env) ==
  _maybeFinish(resume(_process([t EXCEPT !.locked = FALSE, !.pending = FALSE], env), env))

\* mutation: a chunk written while the decoder is locked is dropped
write_dropsWhenLocked(t, env, chunk) ==
  IF t.finished \/ t.locked THEN t
  ELSE resume(_process([t EXCEPT !.buffer = append(@, chunk)], env), env)

\* mutation: a chunk written after end() is processed like any other
write_afterEnd(t, env, chunk) ==
  resume(_process([t EXCEPT !.buffer = append(@, chunk)], env), env)

write(t, env, chunk) ==
  IF t.finished THEN t
  ELSE resume(_process([t EXCEPT !.buffer = append(@, chunk)], env), env)

end(t, env) ==
  _maybeFinish(resume(_process([t EXCEPT !.finished = TRUE], env), env))

\* mutation: the value returned tells the lock as it was when write() was called
writeReturns_lockAtCall(t, after) ==
  IF t.finished THEN FALSE ELSE ~t.locked

\* what write() returns: t the decoder when it was called, after the decoder
\* when it returns
writeReturns(t, after) ==
  IF t.finished THEN FALSE ELSE ~after.locked

\* whether write() has invoked the callback given to it when it returns: on
\* both paths it has
writeCallsBack(t) == IF t.finished THEN TRUE ELSE TRUE

(***************************************************************************)
(* The archives fed to the decoder.  Header blocks are written the way the *)
(* repository's tests write them (createHeader / writeOctal): octal fields *)
(* of length-1 digits and a NUL, the checksum computed over the finished   *)
(* block.                                                                  *)
(***************************************************************************)
Rep(b, n) == [i \in 1..n |-> b]

PadTo(bytes, n) == bytes \o Rep(0, n - Len(bytes))

RECURSIVE OctDigits(_)
OctDigits(n) == IF n < 8 THEN <<48 + n>> ELSE OctDigits(n \div 8) \o <<48 + (n % 8)>>

RECURSIVE DecDigits(_)
DecDigits(n) == IF n < 10 THEN <<48 + n>> ELSE DecDigits(n \div 10) \o <<48 + (n % 10)>>

writeOctal(value, length) ==
  LET str == OctDigits(value)
  IN Rep(48, length - 1 - Len(str)) \o str \o <<0>>

RECURSIVE SparseMapBytes(_)
SparseMapBytes(map) ==
  IF map = <<>> THEN <<>>
  ELSE writeOctal(map[1][1], SPARSE_ENTRY_OFFSET_SIZE)
       \o writeOctal(map[1][2], SPARSE_ENTRY_NUMBYTES_SIZE)
       \o SparseMapBytes(Tail(map))

\* the block with the checksum field filled in
WithChecksum(block) ==
  SubSeq(block, 1, CHECKSUM_OFFSET) \o writeOctal(checksum(block), CHECKSUM_SIZE)
  \o SubSeq(block, CHECKSUM_OFFSET + CHECKSUM_SIZE + 1, HEADER_SIZE)

\* f.format is "ustar", "gnu" or "v7"; f.map, f.isExtended and f.realSize are
\* the old-GNU sparse fields (zero bytes when the map is empty)
createHeader(f) ==
  LET magic == CASE f.format = "ustar" -> USTAR_MAGIC \o <<48, 48>>
                 [] f.format = "gnu" -> GNU_MAGIC \o GNU_VER
                 [] OTHER -> Rep(0, 8)
      front == PadTo(f.name, NAME_SIZE)
               \o writeOctal(420, MODE_SIZE)
               \o writeOctal(0, UID_SIZE)
               \o writeOctal(0, GID_SIZE)
               \o writeOctal(f.size, SIZE_SIZE)
               \o writeOctal(0, MTIME_SIZE)
               \o Rep(32, CHECKSUM_SIZE)
               \o <<f.typeflag>>
               \o PadTo(f.linkname, LINKNAME_SIZE)
               \o magic
               \o Rep(0, UNAME_SIZE) \o Rep(0, GNAME_SIZE)
               \o writeOctal(0, DEVMAJOR_SIZE) \o writeOctal(0, DEVMINOR_SIZE)
      back == IF f.map = <<>>
              THEN PadTo(f.prefix, HEADER_SIZE - PREFIX_OFFSET)
              ELSE Rep(0, SPARSE_OFFSET - PREFIX_OFFSET)
                   \o PadTo(SparseMapBytes(f.map), SPARSE_ENTRIES_IN_HEADER * SPARSE_ENTRY_SIZE)
                   \o <<f.isExtended>>
                   \o writeOctal(f.realSize, SPARSE_REALSIZE_SIZE)
                   \o Rep(0, HEADER_SIZE - SPARSE_REALSIZE_OFFSET - SPARSE_REALSIZE_SIZE)
  IN WithChecksum(front \o back)

Fields(name, size, typeflag, format) ==
  [name |-> name, size |-> size, typeflag |-> typeflag, format |-> format,
   linkname |-> <<>>, prefix |-> <<>>, map |-> <<>>, isExtended |-> 0, realSize |-> 0]

\* an extended sparse block: up to 21 map entries and the isextended flag
SparseExtendedBlock(map, isExtended) ==
  PadTo(SparseMapBytes(map), SPARSE_EXTENDED_ISEXTENDED_OFFSET)
  \o <<isExtended>> \o Rep(0, BLOCK_SIZE - SPARSE_EXTENDED_ISEXTENDED_OFFSET - 1)

\* payload bytes followed by the padding to the block boundary
Payload(bytes) == bytes \o Rep(0, overflow(Len(bytes)))

\* one PAX record "<len> key=value\n"
PaxRecord(key, value) ==
  LET body == <<32>> \o key \o <<61>> \o value \o <<10>>
      n == Len(body)
      len == IF n + 1 <= 9 THEN n + 1 ELSE n + 2
  IN DecDigits(len) \o body

TheEnd == Rep(0, 2 * BLOCK_SIZE)

\* 1: the empty archive, two zero blocks
ArchiveEmpty == TheEnd

\* 2: one USTAR file of 14 bytes, then the terminator
ArchiveOneFile ==
  createHeader(Fields(<<97>>, 14, 48, "ustar")) \o Payload(Rep(72, 14)) \o TheEnd

\* 3: a file, a file filling its block exactly and a directory, no terminator
ArchiveNoTerminator ==
  createHeader(Fields(<<97, 49>>, 3, 48, "ustar")) \o Payload(Rep(65, 3))
  \o createHeader(Fields(<<98>>, 512, 48, "ustar")) \o Payload(Rep(66, 512))
  \o createHeader(Fields(<<100, 47>>, 0, 53, "ustar"))

\* 4: a GNU long path record and the file it names, one zero block
ArchiveGnuLongPath ==
  createHeader(Fields(<<76>>, 3, 76, "gnu")) \o Payload(<<108, 112, 0>>)
  \o createHeader(Fields(<<99>>, 5, 48, "gnu")) \o Payload(Rep(67, 5))
  \o Rep(0, BLOCK_SIZE)

\* 5: a per-entry PAX header giving size=20 for a file whose size field is 0
ArchivePaxSize ==
  createHeader(Fields(<<120>>, Len(PaxRecord(K_size, <<50, 48>>)), 120, "ustar"))
  \o Payload(PaxRecord(K_size, <<50, 48>>))
  \o createHeader(Fields(<<112>>, 0, 48, "ustar")) \o Payload(Rep(80, 20))
  \o TheEnd

\* 6: an old-GNU sparse file, data "SSSS" at 0 and "TTTT" at 512, real size 1024
ArchiveSparse ==
  createHeader([Fields(<<115>>, 8, 83, "gnu") EXCEPT
                  !.map = <<<<0, 4>>, <<512, 4>>>>, !.realSize = 1024])
  \o Payload(Rep(83, 4) \o Rep(84, 4))
  \o Rep(0, BLOCK_SIZE)

\* 7: a sparse file whose map continues in one extended block
ArchiveSparseExtended ==
  createHeader([Fields(<<101>>, 7, 83, "gnu") EXCEPT
                  !.map = <<<<0, 2>>, <<100, 2>>, <<200, 1>>, <<300, 1>>>>,
                  !.isExtended = 1, !.realSize = 600])
  \o SparseExtendedBlock(<<<<512, 1>>>>, 0)
  \o Payload(Rep(69, 7))
  \o Rep(0, BLOCK_SIZE)

\* 8: a file followed by a header block whose checksum is wrong
ArchiveBadChecksum ==
  createHeader(Fields(<<102>>, 3, 48, "ustar")) \o Payload(Rep(70, 3))
  \o PadTo(<<103>>, BLOCK_SIZE)

\* a header block and the padded data that follows it
Member(name, typeflag, format, data) ==
  createHeader(Fields(name, Len(data), typeflag, format)) \o Payload(data)

\* a header block with one byte of the name changed after the checksum was
\* written
Corrupt(block) == [block EXCEPT ![1] = @ + 1]

\* 9: one file in the V7 format (no magic), then the terminator
ArchiveV7 == Member(<<118>>, 48, "v7", <<86, 86>>) \o TheEnd

\* 10: a file, a USTAR header with a flipped byte, and a valid file after it
ArchiveCorrupted ==
  Member(<<102>>, 48, "ustar", <<70, 70, 70>>)
  \o Corrupt(createHeader(Fields(<<99>>, 2, 48, "ustar"))) \o Payload(<<67, 67>>)
  \o Member(<<104>>, 48, "ustar", <<72, 72>>)
  \o TheEnd

\* 11: a header with a flipped byte and no magic, and a valid file after it
ArchiveCorruptedV7 ==
  Corrupt(createHeader(Fields(<<99>>, 2, 48, "v7"))) \o Payload(<<67, 67>>)
  \o Member(<<104>>, 48, "ustar", <<72, 72>>)
  \o TheEnd

\* 12: a GNU multi-volume continuation header ('M') with two bytes of data
ArchiveMultivol == Member(<<109>>, 77, "gnu", <<77, 77>>) \o TheEnd

\* the extension records: global PAX path=gp linkpath=gl uid=1 gid=2,
\* per-entry PAX path=xp uid=3, GNU long path "lp", GNU long link "lk"
RecG ==
  Member(<<103>>, 103, "ustar",
         PaxRecord(K_path, <<103, 112>>) \o PaxRecord(K_linkpath, <<103, 108>>)
         \o PaxRecord(K_uid, <<49>>) \o PaxRecord(K_gid, <<50>>))

RecX ==
  Member(<<120>>, 120, "ustar",
         PaxRecord(K_path, <<120, 112>>) \o PaxRecord(K_uid, <<51>>))

RecL == Member(<<76>>, 76, "gnu", <<108, 112, 0>>)

RecK == Member(<<75>>, 75, "gnu", <<108, 107, 0>>)

FileA == Member(<<97>>, 48, "ustar", <<65>>)

FileB == Member(<<98>>, 48, "ustar", <<>>)

\* 13, 14: global and per-entry PAX before file a, in both orders, then file b
ArchivePaxGX == RecG \o RecX \o FileA \o FileB \o Rep(0, BLOCK_SIZE)

ArchivePaxXG == RecX \o RecG \o FileA \o FileB \o Rep(0, BLOCK_SIZE)

\* 15, 16: all four extension records before file a, in two orders
ArchiveGXLK == RecG \o RecX \o RecL \o RecK \o FileA \o FileB \o Rep(0, BLOCK_SIZE)

ArchiveKLXG == RecK \o RecL \o RecX \o RecG \o FileA \o FileB \o Rep(0, BLOCK_SIZE)

\* 17: a long path and a per-entry PAX header before a sparse file, then file b
ArchiveLongSparse ==
  RecL \o RecX
  \o createHeader([Fields(<<115>>, 8, 83, "gnu") EXCEPT
                     !.map = <<<<0, 4>>, <<512, 4>>>>, !.realSize = 1024])
  \o Payload(Rep(83, 4) \o Rep(84, 4))
  \o FileB \o Rep(0, BLOCK_SIZE)

\* 18: global PAX uid=1 gid=2, file a, global PAX uid=5, file b, file c
ArchiveGlobals ==
  Member(<<103>>, 103, "ustar", PaxRecord(K_uid, <<49>>) \o PaxRecord(K_gid, <<50>>))
  \o FileA
  \o Member(<<103>>, 103, "ustar", PaxRecord(K_uid, <<53>>))
  \o FileB
  \o Member(<<99>>, 48, "ustar", <<>>)
  \o Rep(0, BLOCK_SIZE)

\* 19: a regular file (typeflag '0') whose name "d/" ends with a slash, and
\* file b
ArchiveOldDirectory == Member(<<100, 47>>, 48, "ustar", <<>>) \o FileB \o Rep(0, BLOCK_SIZE)

\* 20: a header with the typeflag 'Z', which toType does not know, and file b
ArchiveUnknownType == Member(<<122>>, 90, "ustar", <<90>>) \o FileB \o Rep(0, BLOCK_SIZE)

\* 21: a sparse file whose map continues in two extended blocks: four regions
\* in the header, a full block of 21, and a block of one region followed by
\* an empty entry and by an entry that is not part of the map
ArchiveSparseChain ==
  createHeader([Fields(<<110>>, 26, 83, "gnu") EXCEPT
                  !.map = [i \in 1..4 |-> <<10 * (i - 1), 1>>],
                  !.isExtended = 1, !.realSize = 300])
  \o SparseExtendedBlock([i \in 1..21 |-> <<10 * (i + 3), 1>>], 1)
  \o SparseExtendedBlock(<<<<250, 1>>, <<0, 0>>, <<290, 1>>>>, 0)
  \o Payload(Rep(78, 26))
  \o Rep(0, BLOCK_SIZE)

\* 22: a sparse file of 100 bytes that is one hole, as GNU tar writes it: no
\* data, and a map of one empty region at the end of the file
ArchiveSparseHole ==
  createHeader([Fields(<<104>>, 0, 83, "gnu") EXCEPT
                  !.map = <<<<100, 0>>>>, !.realSize = 100])
  \o Rep(0, BLOCK_SIZE)

Archives ==
  <<ArchiveEmpty, ArchiveOneFile, ArchiveNoTerminator, ArchiveGnuLongPath,
    ArchivePaxSize, ArchiveSparse, ArchiveSparseExtended, ArchiveBadChecksum,
    ArchiveV7, ArchiveCorrupted, ArchiveCorruptedV7, ArchiveMultivol,
    ArchivePaxGX, ArchivePaxXG, ArchiveGXLK, ArchiveKLXG, ArchiveLongSparse,
    ArchiveGlobals, ArchiveOldDirectory, ArchiveUnknownType, ArchiveSparseChain,
    ArchiveSparseHole>>

\* how many members each of the archives holds
Members == <<0, 1, 3, 1, 1, 1, 1, 1, 1, 1, 0, 1, 2, 2, 2, 2, 2, 3, 2, 2, 1, 1>>

\* the archives holding a block without the ustar or gnu magic: only for
\* these the allowUnknownFormat option is varied, it defaults to false
UnknownFormat == {8, 9, 11}

\* the archives fed in chunks of every size, and those fed block by block
ChunkedArchives == 1..8

BlockArchives == DOMAIN Archives \ ChunkedArchives

(***************************************************************************)
(* The system: a source feeding one archive to a decoder in chunks, and a  *)
(* consumer that attaches its 'entry' listener, and calls the next() token *)
(* of every entry once, inside the callback or later.                      *)
(***************************************************************************)
\* archive: the archive fed; written: the bytes of it handed to write() so far;
\* nwrites: the write() calls of a size in ChunkSizes; endedAt: the value of
\* written when end() was called, -1 before; tar: the decoder
\* iter: the iterator, its lock and its file entries where the run has them;
\* unit: the object of a run that exercises one function, and what its last
\* call returned; both are NULL in the runs of the decoder alone
VARIABLES archive, written, nwrites, endedAt, tar, iter, unit

vars == <<archive, written, nwrites, endedAt, tar, iter, unit>>

\* chunk sizes a write may use besides "all the rest" (spec section 8)
ChunkSizes == {1, 3, 511, 512, 513}

\* number of write() calls of a size in ChunkSizes
MaxWrites == 3

Env(sync) == [bytes |-> Archives[archive], sync |-> sync]

\* the entries emitted in one step are a run of entries advanced inside their
\* callback, followed by at most one that is not: the run is the choice
SyncChoices == {(tar.nentries + 1)..j : j \in tar.nentries..Members[archive]}

Init ==
  /\ archive \in ChunkedArchives
  /\ written = 0
  /\ nwrites = 0
  /\ endedAt = 0 - 1
  /\ iter = NULL
  /\ unit = NULL
  /\ \E allowUnknownFormat \in (IF archive \in UnknownFormat THEN BOOLEAN ELSE {FALSE}),
        listening \in BOOLEAN :
       tar = NewTarExtract([allowUnknownFormat |-> allowUnknownFormat], listening)

\* source.on('data'): write the next n bytes of the archive
Write(n, sync) ==
  /\ nwrites < MaxWrites
  /\ written < Len(Archives[archive])
  /\ LET hi == Min(written + n, Len(Archives[archive]))
     IN /\ tar' = write(tar, Env(sync), Seg(written, hi))
        /\ written' = hi
  /\ nwrites' = nwrites + 1
  /\ UNCHANGED <<archive, endedAt, iter, unit>>

\* write everything that is left in one chunk
WriteRest(sync) ==
  /\ written < Len(Archives[archive])
  /\ tar' = write(tar, Env(sync), Seg(written, Len(Archives[archive])))
  /\ written' = Len(Archives[archive])
  /\ UNCHANGED <<archive, nwrites, endedAt, iter, unit>>

\* source.on('end')
End(sync) ==
  /\ ~tar.finished
  /\ tar' = end(tar, Env(sync))
  /\ endedAt' = written
  /\ UNCHANGED <<archive, written, nwrites, iter, unit>>

\* the consumer calls the next() token of the k-th entry, after the callback
Advance(k, sync) ==
  /\ k \in 1..tar.nentries
  /\ k \notin tar.advanced
  /\ tar' = _unlock([tar EXCEPT !.advanced = @ \cup {k}], Env(sync))
  /\ UNCHANGED <<archive, written, nwrites, endedAt, iter, unit>>

\* extract.on('entry', listener)
OnEntry ==
  /\ ~tar.listening
  /\ tar' = [tar EXCEPT !.listening = TRUE]
  /\ UNCHANGED <<archive, written, nwrites, endedAt, iter, unit>>

\* extract.resume()
Resume(sync) ==
  /\ tar.pendingEntry # NULL
  /\ tar.listening
  /\ tar' = resume(tar, Env(sync))
  /\ UNCHANGED <<archive, written, nwrites, endedAt, iter, unit>>

Next ==
  \/ \E n \in ChunkSizes, sync \in SyncChoices : Write(n, sync)
  \/ \E sync \in SyncChoices : WriteRest(sync)
  \/ \E sync \in SyncChoices : End(sync)
  \/ \E k \in 1..Members[archive], sync \in SyncChoices : Advance(k, sync)
  \/ OnEntry
  \/ \E sync \in SyncChoices : Resume(sync)

Spec == Init /\ [][Next]_vars

(***************************************************************************)
(* The same decoder fed by a source whose consumer keeps its promises: the *)
(* entry listener calls resume() after it was attached and every next()    *)
(* token is called in the end.                                             *)
(***************************************************************************)
\* the consumer's steps, and when each of them is enabled
ConsumerAdvances == \E k \in 1..Members[archive], sync \in SyncChoices : Advance(k, sync)

ConsumerResumes == \E sync \in SyncChoices : Resume(sync)

CanAdvance == (1..tar.nentries) \ tar.advanced # {}

CanResume == tar.pendingEntry # NULL /\ tar.listening

\* weak fairness of the two steps, the ENABLED of each written as the state
\* predicate it amounts to
FairSpec ==
  /\ Spec
  /\ ([]<>~CanAdvance \/ []<><<ConsumerAdvances>>_vars)
  /\ ([]<>~CanResume \/ []<><<ConsumerResumes>>_vars)

(***************************************************************************)
(* Archives of extension records and of damaged headers, fed block by      *)
(* block (or the rest at once) to a decoder whose listener is attached     *)
(* before the first write.                                                 *)
(***************************************************************************)
BlockInit ==
  /\ archive \in BlockArchives
  /\ written = 0
  /\ nwrites = 0
  /\ endedAt = 0 - 1
  /\ iter = NULL
  /\ unit = NULL
  /\ \E allowUnknownFormat \in (IF archive \in UnknownFormat THEN BOOLEAN ELSE {FALSE}) :
       tar = NewTarExtract([allowUnknownFormat |-> allowUnknownFormat], TRUE)

\* source.on('data') with a chunk of one block
WriteBlock(sync) ==
  /\ written < Len(Archives[archive])
  /\ tar' = write(tar, Env(sync), Seg(written, written + BLOCK_SIZE))
  /\ written' = written + BLOCK_SIZE
  /\ nwrites' = nwrites + 1
  /\ UNCHANGED <<archive, endedAt, iter, unit>>

BlockNext ==
  \/ \E sync \in SyncChoices : WriteBlock(sync)
  \/ \E sync \in SyncChoices : WriteRest(sync)
  \/ \E sync \in SyncChoices : End(sync)
  \/ \E k \in 1..Members[archive], sync \in SyncChoices : Advance(k, sync)

BlockSpec == BlockInit /\ [][BlockNext]_vars

(***************************************************************************)
(* The BufferList alone: chunks cut from one stream of numbered bytes are  *)
(* appended, bytes are consumed from the front, the list is cleared.       *)
(***************************************************************************)
\* the bytes appended in all
MaxQueued == 6

\* the longest chunk appended, and the most bytes asked of one consume
MaxChunk == 3

\* the chunks held by the list at a time
MaxNodes == 3

\* no decoder and no archive take part
NoDecoder ==
  /\ archive = 1
  /\ written = 0
  /\ nwrites = 0
  /\ endedAt = 0 - 1
  /\ tar = NULL
  /\ iter = NULL

\* list: the BufferList; appended: the bytes appended so far, the next chunk
\* starts there; head: the position of the first byte not yet consumed or
\* cleared; last: the last consume call (n, what it returned, whether it
\* threw, the list before it)
QueueInit ==
  /\ NoDecoder
  /\ unit = [list |-> NewBufferList, appended |-> 0, head |-> 0, last |-> NULL]

QueueAppend(n) ==
  /\ unit.appended + n <= MaxQueued
  /\ Len(unit.list.chunks) < MaxNodes
  /\ unit' = [unit EXCEPT !.list = append(@, Seg(unit.appended, unit.appended + n)),
                          !.appended = @ + n,
                          !.last = NULL]
  /\ UNCHANGED <<archive, written, nwrites, endedAt, tar, iter>>

\* the call consume(n), r what it gives
Consumed(n, r) ==
  [unit EXCEPT !.list = r.list,
               !.head = IF r.threw THEN @ ELSE @ + n,
               !.last = [n |-> n, data |-> r.data, threw |-> r.threw,
                         before |-> unit.list]]

QueueConsume(n) ==
  /\ unit' = Consumed(n, consume(unit.list, n))
  /\ UNCHANGED <<archive, written, nwrites, endedAt, tar, iter>>

QueueClear ==
  /\ unit' = [unit EXCEPT !.list = clear(@), !.head = unit.appended, !.last = NULL]
  /\ UNCHANGED <<archive, written, nwrites, endedAt, tar, iter>>

QueueNext ==
  \/ \E n \in 0..MaxChunk : QueueAppend(n)
  \/ \E n \in 0..MaxChunk : QueueConsume(n)
  \/ QueueClear

QueueSpec == QueueInit /\ [][QueueNext]_vars

(***************************************************************************)
(* Either of the two: a run of the BufferList alone, or a run of the       *)
(* decoder fed in chunks.                                                  *)
(***************************************************************************)
QueueOrDecoderNext ==
  \/ (unit # NULL /\ QueueNext)
  \/ (unit = NULL /\ Next)

QueueOrDecoderSpec == (QueueInit \/ Init) /\ [][QueueOrDecoderNext]_vars

(***************************************************************************)
(* The decoder fed block by block by a source that reads what write()      *)
(* returns.                                                                *)
(***************************************************************************)
\* unit: the last call made on the decoder (op), for a write what it returned
\* (hint), whether end() had been called before it (ended) and whether its
\* callback was invoked (called)
HintInit ==
  /\ archive \in BlockArchives
  /\ written = 0
  /\ nwrites = 0
  /\ endedAt = 0 - 1
  /\ iter = NULL
  /\ unit = [op |-> "new", hint |-> NULL, ended |-> FALSE, called |-> FALSE]
  /\ \E allowUnknownFormat \in (IF archive \in UnknownFormat THEN BOOLEAN ELSE {FALSE}) :
       tar = NewTarExtract([allowUnknownFormat |-> allowUnknownFormat], TRUE)

\* ok = extract.write(chunk) with a chunk of one block
HintWrite(sync) ==
  /\ written < Len(Archives[archive])
  /\ tar' = write(tar, Env(sync), Seg(written, written + BLOCK_SIZE))
  /\ unit' = [op |-> "write", hint |-> writeReturns(tar, tar'), ended |-> tar.finished,
              called |-> writeCallsBack(tar)]
  /\ written' = written + BLOCK_SIZE
  /\ nwrites' = nwrites + 1
  /\ UNCHANGED <<archive, endedAt, iter>>

HintEnd(sync) ==
  /\ ~tar.finished
  /\ tar' = end(tar, Env(sync))
  /\ unit' = [unit EXCEPT !.op = "end"]
  /\ endedAt' = written
  /\ UNCHANGED <<archive, written, nwrites, iter>>

HintAdvance(k, sync) ==
  /\ k \in 1..tar.nentries
  /\ k \notin tar.advanced
  /\ tar' = _unlock([tar EXCEPT !.advanced = @ \cup {k}], Env(sync))
  /\ unit' = [unit EXCEPT !.op = "next"]
  /\ UNCHANGED <<archive, written, nwrites, endedAt, iter>>

HintNext ==
  \/ \E sync \in SyncChoices : HintWrite(sync)
  \/ \E sync \in SyncChoices : HintEnd(sync)
  \/ \E k \in 1..Members[archive], sync \in SyncChoices : HintAdvance(k, sync)

HintSpec == HintInit /\ [][HintNext]_vars

(***************************************************************************)
(* The block-fed decoder with a consumer that may call the next() token of *)
(* an entry again after it has called it.                                  *)
(***************************************************************************)
\* the next() token of the k-th entry called once more: the closure calls
\* _unlock() whatever the decoder is doing
AdvanceAgain(k, sync) ==
  /\ k \in tar.advanced
  /\ tar' = _unlock(tar, Env(sync))
  /\ UNCHANGED <<archive, written, nwrites, endedAt, iter, unit>>

ReuseNext ==
  \/ BlockNext
  \/ \E k \in 1..Members[archive], sync \in SyncChoices : AdvanceAgain(k, sync)

ReuseSpec == BlockInit /\ [][ReuseNext]_vars

(***************************************************************************)
(* The iterator: a TarIterator owns a Lock (one reference of its own) and  *)
(* a decoder fed by the source stream; nextEntry listens for one entry at  *)
(* a time and wraps it, a file entry retaining the lock until its create   *)
(* completes or it is destroyed; the last release destroys the lock, which *)
(* stops the source and calls BaseIterator's end.                          *)
(***************************************************************************)
\* the Lock: count, the references it clears (TRUE: set), whether release
\* threw, and the calls of BaseIterator.prototype.end made so far
NewLock ==
  [count |-> 1, iterator |-> TRUE, extract |-> TRUE, sourceStream |-> TRUE,
   threw |-> FALSE, ends |-> 0]

\* mutation: a reference taken without being counted
retain_uncounted(l) == l

retain(l) == [l EXCEPT !.count = @ + 1]

__destroy(l) ==
  [l EXCEPT !.sourceStream = FALSE,
            !.extract = FALSE,
            !.ends = IF l.iterator THEN @ + 1 ELSE @,
            !.iterator = FALSE]

release(l) ==
  IF l.count <= 0 THEN [l EXCEPT !.threw = TRUE]
  ELSE IF l.count - 1 = 0 THEN __destroy([l EXCEPT !.count = 0])
  ELSE [l EXCEPT !.count = @ - 1]

\* iter: lock, extract: the iterator's fields being set; L: the Lock;
\* files: the lock field of the FileEntry made of the k-th entry (TRUE: set),
\* for the entries that are files; queued: the nextEntry pushed and not yet
\* run, with the next() token bound to it (the entry's number, 0 for none),
\* NULL when none is; waiting: nextEntry's listeners are attached; done: nextEntry
\* reported the end of the iteration; calls: for every nextEntry run so far,
\* the results its callback was called with; fstream: the stream field of the
\* k-th FileEntry (TRUE: set); creating: the file entries whose _writeFile is
\* piping; creates, missing: the create calls made on the k-th FileEntry and
\* those that failed with 'missing stream'; releases: the release() calls of
\* each holder of the lock, 0 being the iterator
NewTarIterator ==
  [lock |-> TRUE, extract |-> TRUE, L |-> NewLock, files |-> <<>>,
   queued |-> NULL, waiting |-> FALSE, done |-> FALSE, calls |-> <<>>,
   fstream |-> <<>>, creating |-> {}, creates |-> <<>>, missing |-> <<>>,
   releases |-> (0 :> 0)]

\* the callback of the running nextEntry is called with a result
callback(it) == [it EXCEPT !.calls[Len(it.calls)] = @ + 1]

\* nextCallback: the three listeners are removed, the callback is called
nextCallback(it) == callback([it EXCEPT !.waiting = FALSE])

\* iterator.isDone(): BaseIterator.end was called
isDone(it) == it.L.ends > 0

\* nextEntry's onEntry for the k-th entry, and nextCallback: the listeners are
\* removed, and the next nextEntry is pushed with the token if an entry is
\* handed on
onEntry(it, header, k) ==
  IF ~it.lock \/ isDone(it)
  THEN nextCallback([it EXCEPT !.done = TRUE])
  ELSE IF header.type = "file"
  THEN nextCallback([it EXCEPT !.L = retain(@), !.files = @ @@ (k :> TRUE),
                               !.fstream = @ @@ (k :> TRUE),
                               !.creates = @ @@ (k :> 0),
                               !.missing = @ @@ (k :> 0),
                               !.releases = @ @@ (k :> 0),
                               !.queued = [next |-> k]])
  ELSE IF header.type \in {"directory", "symlink", "link"}
  THEN nextCallback([it EXCEPT !.queued = [next |-> k]])
  ELSE nextCallback(it)

\* onError and onEnd: the callback itself
onError(it) == callback(it)

onEnd(it) == callback(it)

\* the listeners of the running nextEntry, while attached, hear the events
\* evs[i..] of the decoder in turn; k is the number of the entry emitted
RECURSIVE HeardEvents(_, _, _, _)
HeardEvents(it, evs, i, k) ==
  IF i > Len(evs) THEN it
  ELSE HeardEvents(IF ~it.waiting THEN it
                   ELSE IF evs[i].e = "entry" THEN onEntry(it, evs[i].header, k)
                   ELSE IF evs[i].e = "error" THEN onError(it)
                   ELSE onEnd(it),
                   evs, i + 1, k)

\* a call of the decoder returned (t before, after after): the listener, if
\* attached, ran for the entry emitted
Listened(it, t, after) == HeardEvents(it, after.events, Len(t.events) + 1, after.nentries)

\* the decoder with the listeners as the iterator has them
Heard(t, it) == [t EXCEPT !.listening = it.waiting]

\* the first chunk read pushes the first nextEntry (pipe's callback)
Piped(it, first) ==
  IF first /\ ~isDone(it) THEN [it EXCEPT !.queued = [next |-> 0]] ELSE it

\* the decoder and the iterator after a call of the decoder that left it as
\* after and the iterator as it
Returned(after, it) ==
  /\ tar' = Heard(after, it)
  /\ iter' = it

\* a call of the decoder made with the iterator as it, the decoder left as
\* after
Called(it, after) == Returned(after, Listened(it, tar, after))

IterInit ==
  /\ archive \in BlockArchives
  /\ written = 0
  /\ nwrites = 0
  /\ endedAt = 0 - 1
  /\ unit = NULL
  /\ iter = NewTarIterator
  /\ tar = NewTarExtract([allowUnknownFormat |-> FALSE], FALSE)

\* source.on('data'): the chunk is written if the iterator still has its
\* decoder; the first chunk also pushes the first nextEntry
SourceData ==
  /\ iter.L.sourceStream
  /\ written < Len(Archives[archive])
  /\ IF iter.extract
     THEN Called(Piped(iter, written = 0),
                 write(tar, Env({}), Seg(written, written + BLOCK_SIZE)))
     ELSE Returned(tar, Piped(iter, written = 0))
  /\ written' = written + BLOCK_SIZE
  /\ nwrites' = nwrites + 1
  /\ UNCHANGED <<archive, endedAt, unit>>

\* source.on('end')
SourceEnd ==
  /\ iter.L.sourceStream
  /\ written = Len(Archives[archive])
  /\ endedAt < 0
  /\ IF iter.extract
     THEN Called(iter, end(tar, Env({})))
     ELSE Returned(tar, iter)
  /\ endedAt' = written
  /\ UNCHANGED <<archive, written, nwrites, unit>>

\* the nextEntry pushed is run: it reports the end if the iterator has ended,
\* else attaches its listeners and calls the token, or resume() the first time
nextEntry ==
  /\ iter.queued # NULL
  /\ IF ~iter.lock \/ isDone(iter)
     THEN /\ iter' = [iter EXCEPT !.queued = NULL, !.done = TRUE, !.calls = Append(@, 1)]
          /\ tar' = tar
     ELSE Called([iter EXCEPT !.queued = NULL, !.waiting = TRUE, !.calls = Append(@, 0)],
                 IF iter.queued.next = 0
                 THEN resume([tar EXCEPT !.listening = TRUE], Env({}))
                 ELSE _unlock([tar EXCEPT !.listening = TRUE,
                                          !.advanced = @ \cup {iter.queued.next}],
                              Env({})))
  /\ UNCHANGED <<archive, written, nwrites, endedAt, unit>>

\* TarIterator.end(err), called by the consumer or by BaseIterator
TarIterator_end ==
  /\ iter' = [iter EXCEPT !.L = IF iter.lock THEN release(@) ELSE @,
                          !.releases[0] = IF iter.lock THEN @ + 1 ELSE @,
                          !.lock = FALSE,
                          !.extract = FALSE]
  /\ iter' # iter
  /\ UNCHANGED <<archive, written, nwrites, endedAt, tar, unit>>

\* what create's completion and destroy do with the entry's lock
released(it, k) == [it EXCEPT !.L = release(@), !.files[k] = FALSE, !.releases[k] = @ + 1]

\* mutation: the reference released whether or not the entry still holds it
Unlocked_again(it, k) == released(it, k)

Unlocked(it, k) == IF it.files[k] THEN released(it, k) ELSE it

\* the completion of entry.create(dest, callback) for the k-th entry
FileEntry_create(k) ==
  /\ k \in DOMAIN iter.files
  /\ iter' = Unlocked(iter, k)
  /\ UNCHANGED <<archive, written, nwrites, endedAt, tar, unit>>

\* entry.destroy() for the k-th entry
FileEntry_destroy(k) ==
  /\ k \in DOMAIN iter.files
  /\ iter' = Unlocked([iter EXCEPT !.fstream[k] = FALSE], k)
  /\ UNCHANGED <<archive, written, nwrites, endedAt, tar, unit>>

IterNext ==
  \/ SourceData
  \/ SourceEnd
  \/ nextEntry
  \/ TarIterator_end
  \/ \E k \in 1..Members[archive] : FileEntry_create(k)
  \/ \E k \in 1..Members[archive] : FileEntry_destroy(k)

IterSpec == IterInit /\ [][IterNext]_vars

(***************************************************************************)
(* The holders of the lock: the iterator and its file entries, create      *)
(* called on a file entry any number of times up to MaxCreates, before,    *)
(* while or after its file is written, and destroy and TarIterator.end at  *)
(* any moment.                                                             *)
(***************************************************************************)
\* the create calls made on one FileEntry
MaxCreates == 2

\* _writeFile of the k-th FileEntry, called by FileEntry.prototype.create:
\* without stream the callback gets the 'missing stream' error at once, with
\* one the stream is taken and piped to the file
_writeFile(it, k) ==
  IF ~it.fstream[k]
  THEN Unlocked([it EXCEPT !.missing[k] = @ + 1], k)
  ELSE [it EXCEPT !.fstream[k] = FALSE, !.creating = @ \cup {k}]

\* entry.create(dest, callback) is called for the k-th entry
create(k) ==
  /\ k \in DOMAIN iter.files
  /\ iter.creates[k] < MaxCreates
  /\ iter' = _writeFile([iter EXCEPT !.creates[k] = @ + 1], k)
  /\ UNCHANGED <<archive, written, nwrites, endedAt, tar, unit>>

\* the file of the k-th entry is written: create's callback runs
Created(k) ==
  /\ k \in iter.creating
  /\ iter' = Unlocked([iter EXCEPT !.creating = @ \ {k}], k)
  /\ UNCHANGED <<archive, written, nwrites, endedAt, tar, unit>>

HolderArchives == {2, 3, 13}

HolderInit ==
  /\ archive \in HolderArchives
  /\ written = 0
  /\ nwrites = 0
  /\ endedAt = 0 - 1
  /\ unit = NULL
  /\ iter = NewTarIterator
  /\ tar = NewTarExtract([allowUnknownFormat |-> FALSE], FALSE)

\* source.on('data') with all that is left of the archive
SourceRest ==
  /\ iter.L.sourceStream
  /\ written < Len(Archives[archive])
  /\ IF iter.extract
     THEN Called(Piped(iter, written = 0),
                 write(tar, Env({}), Seg(written, Len(Archives[archive]))))
     ELSE Returned(tar, Piped(iter, written = 0))
  /\ written' = Len(Archives[archive])
  /\ nwrites' = nwrites + 1
  /\ UNCHANGED <<archive, endedAt, unit>>

HolderNext ==
  \/ SourceRest
  \/ SourceEnd
  \/ nextEntry
  \/ TarIterator_end
  \/ \E k \in 1..Members[archive] : create(k)
  \/ \E k \in 1..Members[archive] : Created(k)
  \/ \E k \in 1..Members[archive] : FileEntry_destroy(k)

HolderSpec == HolderInit /\ [][HolderNext]_vars

(***************************************************************************)
(* overflow alone, applied to one size.                                    *)
(***************************************************************************)
\* the largest size tried
MaxSize == 1100

\* unit: the size, whether overflow was called with it, and what it returned
OverflowInit ==
  /\ NoDecoder
  /\ \E size \in 0..MaxSize : unit = [size |-> size, called |-> FALSE, padding |-> 0]

OverflowCall ==
  /\ ~unit.called
  /\ unit' = [unit EXCEPT !.called = TRUE, !.padding = overflow(unit.size)]
  /\ UNCHANGED <<archive, written, nwrites, endedAt, tar, iter>>

OverflowSpec == OverflowInit /\ [][OverflowCall]_vars

(***************************************************************************)
(* The sparse archives whose map continues in extended blocks, fed in      *)
(* chunks of every size.                                                   *)
(***************************************************************************)
SparseChainArchives == {7, 21}

SparseChainInit ==
  /\ archive \in SparseChainArchives
  /\ written = 0
  /\ nwrites = 0
  /\ endedAt = 0 - 1
  /\ iter = NULL
  /\ unit = NULL
  /\ \E listening \in BOOLEAN :
       tar = NewTarExtract([allowUnknownFormat |-> FALSE], listening)

SparseChainSpec == SparseChainInit /\ [][Next]_vars

(***************************************************************************)
(* What a consumer sees of a run: the events of the decoder in order, an   *)
(* 'entry' event with the bytes its stream delivered.                      *)
(***************************************************************************)
Observation(t) ==
  [i \in 1..Len(t.events) |->
     IF t.events[i].e = "entry"
     THEN [e |-> "entry", header |-> t.events[i].header,
           data |-> t.streams[t.events[i].stream].data,
           ended |-> t.streams[t.events[i].stream].ended,
           errors |-> t.streams[t.events[i].stream].errors]
     ELSE t.events[i]]

\* the emitted entries whose next() token was not called yet
LiveEntries(t) == (1..t.nentries) \ t.advanced

\* a consumer that calls every outstanding next() token, oldest first, each
\* after its callback returned
RECURSIVE Drain(_, _)
Drain(t, env) ==
  IF LiveEntries(t) = {} THEN t
  ELSE LET k == CHOOSE k \in LiveEntries(t) : \A j \in LiveEntries(t) : k <= j
       IN Drain(_unlock([t EXCEPT !.advanced = @ \cup {k}], env), env)

\* the bytes the decoder accepted: those written before end()
Accepted == IF endedAt >= 0 THEN endedAt ELSE written

\* every parsed entry was delivered and advanced
Settled ==
  tar.listening /\ tar.pendingEntry = NULL /\ LiveEntries(tar) = {}

\* the run that feeds the first n bytes in a single write()
OneWrite(options, n, ended, env) ==
  LET t0 == NewTarExtract(options, TRUE)
      t1 == IF n > 0 THEN Drain(write(t0, env, Seg(0, n)), env) ELSE t0
  IN IF ended THEN Drain(end(t1, env), env) ELSE t1

\* the run of a producer that respects the hint: one block per write(), and
\* no further write() before the consumer advanced
RECURSIVE LockstepFrom(_, _, _, _)
LockstepFrom(t, env, at, n) ==
  IF at >= n THEN t
  ELSE LockstepFrom(Drain(write(t, env, Seg(at, Min(at + BLOCK_SIZE, n))), env),
                    env, at + BLOCK_SIZE, n)

Lockstep(options, n, ended, env) ==
  LET t1 == LockstepFrom(NewTarExtract(options, TRUE), env, 0, n)
  IN IF ended THEN Drain(end(t1, env), env) ELSE t1

\* C1: once every parsed entry was delivered and advanced, a run that fed the
\* archive (or the prefix of it accepted so far) in any partition into chunks
\* shows the same entries (header and payload bytes) and the same terminal
\* events as the run that fed the same bytes in a single write()
ChunkInvariance ==
  Settled =>
    Observation(tar) = Observation(OneWrite(tar.options, Accepted, tar.finished, Env({})))

\* a whole archive of several entries was fed in at least three chunks
ChunkInvarianceWitness ==
  /\ Settled /\ tar.finished
  /\ endedAt = Len(Archives[archive])
  /\ nwrites >= 2
  /\ tar.nentries >= 2

OpenStreams(t) == {i \in DOMAIN t.streams : ~t.streams[i].ended}

\* C2: at most one entry stream is open: entryStream and sparseStream are
\* never both set, the only stream that may be open is the newest one (a new
\* one is created only after the previous one ended), and at most one entry
\* is parked or delivered and not yet advanced
SingleEntry ==
  /\ ~(tar.entryStream # 0 /\ tar.sparseStream # 0)
  /\ Cardinality(OpenStreams(tar)) <= 1
  /\ OpenStreams(tar) \subseteq {Len(tar.streams)}
  /\ OpenStreams(tar) = {tar.entryStream, tar.sparseStream} \ {0}
  /\ Cardinality(LiveEntries(tar)) + (IF tar.pendingEntry # NULL THEN 1 ELSE 0) <= 1

\* a second stream is open after the first one ended
SingleEntryWitness ==
  /\ Len(tar.streams) >= 2
  /\ tar.entryStream = Len(tar.streams)
  /\ tar.streams[1].ended

\* the archive offsets of the payload bytes a stream delivered
Offsets(b) == {b[i].lo : i \in {j \in DOMAIN b : b[j].k = "A"}}

OrderingState ==
  /\ \A k \in 1..tar.nentries :
       /\ tar.events[CHOOSE i \in DOMAIN tar.events :
                       /\ tar.events[i].e = "entry"
                       /\ Cardinality({j \in 1..i : tar.events[j].e = "entry"}) = k].stream = k
       /\ k < tar.nentries => tar.streams[k].ended
  /\ tar.pendingEntry # NULL => \A k \in 1..tar.nentries : tar.streams[k].ended
  /\ \A i, j \in DOMAIN tar.streams :
       i < j => \A x \in Offsets(tar.streams[i].data), y \in Offsets(tar.streams[j].data) : x < y

EndedStreamsStay ==
  \A i \in DOMAIN tar.streams : tar.streams[i].ended => tar'.streams[i] = tar.streams[i]

\* C3: the k-th entry emitted is the k-th entry parsed, the payloads lie in
\* the archive in the order of the entries, the stream of an entry has ended
\* when the next entry is parked or emitted, and an ended stream gets no
\* further chunk
Ordering == []OrderingState /\ [][EndedStreamsStay]_vars

\* three entries were emitted, the first two with payload
OrderingWitness ==
  /\ tar.nentries = 3
  /\ BufLen(tar.streams[1].data) > 0
  /\ BufLen(tar.streams[2].data) = BLOCK_SIZE
  /\ tar.streams[3].ended

Finishes(t) == {i \in DOMAIN t.events : t.events[i].e = "finish"}

\* C4: the terminal event is emitted at most once, and only when every
\* entry stream has ended
TerminalOnce ==
  /\ Cardinality(Finishes(tar)) <= 1
  /\ Finishes(tar) # {} => OpenStreams(tar) = {}

HintMayBeIgnored ==
  tar.listening =>
    Observation(Drain(resume(tar, Env({})), Env({})))
      = Observation(Lockstep(tar.options, Accepted, tar.finished, Env({})))

\* next() was called before the data of the entry had arrived, and bytes
\* were written after that
HintMayBeIgnoredWitness ==
  /\ \E k \in tar.advanced : ~tar.streams[k].ended
  /\ nwrites >= 2

\* the bytes each entry stream of an archive has to deliver, in the order of
\* the entries: the payload runs of the archive, and for a sparse file its
\* data runs with the holes between them
Payloads ==
  << <<>>,
     <<Seg(512, 526)>>,
     <<Seg(512, 515), Seg(1536, 2048), <<>>>>,
     <<Seg(1536, 1541)>>,
     <<Seg(1536, 1556)>>,
     <<Seg(512, 516) \o Zeros(508) \o Seg(516, 520) \o Zeros(508)>>,
     <<Seg(1024, 1026) \o Zeros(98) \o Seg(1026, 1028) \o Zeros(98)
       \o Seg(1028, 1029) \o Zeros(99) \o Seg(1029, 1030) \o Zeros(211)
       \o Seg(1030, 1031) \o Zeros(87)>>,
     <<Seg(512, 515)>> >>

\* C7: what the entry streams delivered is at every moment a prefix of the
\* payloads of the archive, stream by stream: no byte of a header block, of
\* an extension payload or of the padding is pushed; an ended stream holds
\* its whole payload, and when the decoder reached its end with the whole
\* archive fed, every payload was delivered
PaddingNeverSurfaces ==
  /\ Len(tar.streams) <= Len(Payloads[archive])
  /\ \A i \in DOMAIN tar.streams :
       LET d == tar.streams[i].data
           p == Payloads[archive][i]
       IN /\ BufLen(d) <= BufLen(p)
          /\ d = BufSlice(p, 0, BufLen(d))
          /\ tar.streams[i].ended => d = p
  /\ (tar.state = STATE_END /\ Settled /\ Accepted = Len(Archives[archive]))
       => /\ Len(tar.streams) = Len(Payloads[archive])
          /\ OpenStreams(tar) = {}

\* a payload that does not fill its block was delivered, the padding and
\* the header block after it were consumed
PaddingNeverSurfacesWitness ==
  /\ Len(tar.streams) >= 2
  /\ tar.streams[1].ended
  /\ BufLen(tar.streams[1].data) = 3
  /\ tar.state = STATE_FILE_DATA

\* the entries parsed so far: the emitted ones and the parked one
EntriesOf(t) ==
  {[header |-> t.events[i].header, stream |-> t.events[i].stream] :
     i \in {j \in DOMAIN t.events : t.events[j].e = "entry"}}
  \cup (IF t.pendingEntry # NULL THEN {t.pendingEntry} ELSE {})

\* C8: for the entry being produced, the bytes pushed to its stream plus
\* entryRemaining are the size of its resolved header, and a stream that
\* ended holds as many bytes as the size of the header delivered with it
SizeAccounting ==
  /\ tar.entryStream # 0 =>
       BufLen(tar.streams[tar.entryStream].data) + tar.entryRemaining = tar.header.size
  /\ \A en \in EntriesOf(tar) :
       /\ BufLen(tar.streams[en.stream].data) <= en.header.size
       /\ tar.streams[en.stream].ended => BufLen(tar.streams[en.stream].data) = en.header.size

\* the entry whose size comes from its PAX header is half delivered
SizeAccountingWitness ==
  /\ archive = 5
  /\ tar.entryStream = 1
  /\ tar.header.size = 20
  /\ tar.entryRemaining \in 1..19

IsZeroBlock(b) ==
  LET bytes == BufBytes(b, Archives[archive])
  IN \A i \in 1..Len(bytes) : bytes[i] = 0

ZeroBlocksRead == {i \in DOMAIN tar.headerReads : IsZeroBlock(tar.headerReads[i])}

\* C9: once an all-zero block was read as a header the decoder is in the end
\* state, no block was read as a header after it, 'finish' was emitted and no
\* entry is parked or emitted after it; the archive of 1024 zero bytes gives
\* no entry and 'finish', the one-file archive with its 1024 zero bytes gives
\* that entry and then 'finish' only
EmptyBlockTermination ==
  /\ ZeroBlocksRead # {} =>
       /\ ZeroBlocksRead = {Len(tar.headerReads)}
       /\ tar.state = STATE_END
       /\ tar.pendingEntry = NULL
       /\ \E i \in Finishes(tar) :
            \A j \in DOMAIN tar.events : j > i => tar.events[j].e = "finish"
  /\ archive = 1 =>
       /\ tar.nentries = 0 /\ tar.pendingEntry = NULL
       /\ Accepted >= BLOCK_SIZE => (Finishes(tar) # {} /\ ZeroBlocksRead = {1})
  /\ (archive = 2 /\ Settled /\ Accepted >= 3 * BLOCK_SIZE) =>
       /\ tar.nentries = 1
       /\ tar.events[1].e = "entry"
       /\ Finishes(tar) = 2..Len(tar.events)
       /\ Finishes(tar) # {}

\* the terminator of the one-file archive was read and more bytes were
\* written after it
EmptyBlockTerminationWitness ==
  /\ archive = 2
  /\ ZeroBlocksRead # {}
  /\ tar.nentries = 1
  /\ tar.buffer.length >= BLOCK_SIZE

Errors(t) == {i \in DOMAIN t.events : t.events[i].e = "error"}

\* end() found the decoder inside an entry, an extension or a sparse map, or
\* with a part of a header block
Truncated ==
  \/ tar.state \notin {STATE_HEADER, STATE_END}
  \/ /\ tar.state = STATE_END
     /\ ZeroBlocksRead = {}
     /\ Errors(tar) = {}
     /\ tar.buffer.length \in 1..(HEADER_SIZE - 1)

\* C10: when end() was called on a truncated archive and every entry was
\* advanced, an error was emitted and 'finish' was not
TruncationReported ==
  (tar.finished /\ Settled /\ Truncated) => (Errors(tar) # {} /\ Finishes(tar) = {})

\* the archive ends on a block boundary after a complete entry, with or
\* without zero blocks behind it
Complete == archive \in ChunkedArchives \ UnknownFormat

\* C11: when the whole of a complete archive was written before end() was
\* called and an 'entry' listener is attached, and the consumer calls
\* resume() and the next() token of every entry it gets, every entry of the
\* archive is emitted and 'finish' is emitted in the end
Liveness ==
  (Complete /\ endedAt = Len(Archives[archive]) /\ tar.listening)
    ~> (tar.nentries = Members[archive] /\ Finishes(tar) # {})

\* the archive without a terminator was fed and ended, its three entries
\* were emitted and advanced, and 'finish' followed
LivenessWitness ==
  /\ archive = 3
  /\ endedAt = Len(Archives[archive])
  /\ tar.advanced = 1..3
  /\ Finishes(tar) # {}

\* the blocks read as headers whose checksum is not the stored one (the
\* all-zero block, whose sum is that of the eight spaces, is the terminator)
ChecksumFailures ==
  {i \in DOMAIN tar.headerReads :
     /\ checksum(BufBytes(tar.headerReads[i], Archives[archive])) # 8 * 32
     /\ checksum(BufBytes(tar.headerReads[i], Archives[archive]))
          # decodeOct(BufBytes(tar.headerReads[i], Archives[archive]),
                      CHECKSUM_OFFSET, CHECKSUM_SIZE)}

ChecksumErrors(t) == {i \in Errors(t) : t.events[i].code = INVALID_CHECKSUM}

\* the entries of the archive that lie before its first corrupted header
Intact == <<0, 1, 3, 1, 1, 1, 1, 0, 1, 1, 0, 1, 2, 2, 2, 2, 2, 3, 2, 2, 1, 1>>

\* C12: once a block whose checksum differs from the stored one was read as a
\* header, exactly one TAR_INVALID_CHECKSUM error is on the main sink, the
\* decoder is in the end state, no block was read as a header after it, no
\* entry is parked, no entry follows the error and only the entries that lie
\* before the block were emitted, whatever is written afterwards; and the
\* error is emitted for nothing else
ChecksumFatal ==
  /\ ChecksumFailures # {} =>
       /\ ChecksumFailures = {Len(tar.headerReads)}
       /\ Cardinality(ChecksumErrors(tar)) = 1
       /\ Errors(tar) = ChecksumErrors(tar)
       /\ tar.state = STATE_END
       /\ tar.pendingEntry = NULL
       /\ tar.nentries = Intact[archive]
       /\ \A i \in ChecksumErrors(tar) :
            \A j \in DOMAIN tar.events : j > i => tar.events[j].e = "finish"
  /\ ChecksumErrors(tar) # {} => ChecksumFailures # {}

\* the second header of the archive was corrupted: its first entry was
\* emitted, the error followed, and the blocks behind the corrupted one (a
\* valid member among them) were written afterwards
ChecksumFatalWitness ==
  /\ archive = 10
  /\ ChecksumFailures # {}
  /\ tar.nentries = 1
  /\ written = Len(Archives[archive])

\* C13: a write() made after an error was emitted leaves the whole decoder,
\* its buffer and its events included, as it was
WriteAfterError ==
  [][(Errors(tar) # {} /\ written' # written) => tar' = tar]_vars

FormatErrors(t) == {i \in Errors(t) : t.events[i].code = INVALID_FORMAT}

\* C14: once the header of the V7 archive (valid checksum, no ustar or gnu
\* magic) was read, a decoder without allowUnknownFormat has emitted one
\* TAR_INVALID_FORMAT error and no entry and is in the end state, and a
\* decoder with it has delivered the entry and no error; the V7 header with a
\* changed byte gives TAR_INVALID_CHECKSUM and no format error under either
\* option
FormatGate ==
  /\ (archive = 9 /\ tar.headerReads # <<>> /\ ~tar.options.allowUnknownFormat) =>
       /\ Cardinality(FormatErrors(tar)) = 1
       /\ Errors(tar) = FormatErrors(tar)
       /\ EntriesOf(tar) = {}
       /\ tar.state = STATE_END
  /\ (archive = 9 /\ tar.headerReads # <<>> /\ tar.options.allowUnknownFormat) =>
       /\ Errors(tar) = {}
       /\ \E en \in EntriesOf(tar) :
            en.stream = 1 /\ en.header.name = <<118>> /\ en.header.size = 2
  /\ (archive = 11 /\ tar.headerReads # <<>>) =>
       /\ FormatErrors(tar) = {}
       /\ ChecksumErrors(tar) # {}
       /\ EntriesOf(tar) = {}

\* the V7 header was refused: the error is the only event so far
FormatGateWitness ==
  /\ archive = 9
  /\ ~tar.options.allowUnknownFormat
  /\ tar.events = <<[e |-> "error", code |-> INVALID_FORMAT]>>

\* the header delivered with the k-th entry of the archive, parked or emitted
Delivered(k) == {en.header : en \in {e \in EntriesOf(tar) : e.stream = k}}

\* C15: the first entry of the archives that put a global PAX header
\* (path=gp linkpath=gl uid=1 gid=2) and a per-entry PAX header (path=xp
\* uid=3) before it, in either order, has the per-entry path and uid and the
\* global gid and linkpath; with a GNU long path (lp) and long link (lk) among
\* them, in either order, it has the GNU path and link and the PAX uid and gid
PaxPrecedence ==
  \A h \in Delivered(1) :
    /\ archive \in {13, 14} =>
         /\ h.name = <<120, 112>> /\ h.linkname = <<103, 108>>
         /\ h.uid = 3 /\ h.gid = 2
    /\ archive \in {15, 16} =>
         /\ h.name = <<108, 112>> /\ h.linkname = <<108, 107>>
         /\ h.uid = 3 /\ h.gid = 2

\* the entry behind the long link, the long path, the per-entry and the global
\* PAX header, in that order, was emitted
PaxPrecedenceWitness ==
  /\ archive = 16
  /\ tar.nentries >= 1
  /\ \E h \in Delivered(1) : h.name = <<108, 112>> /\ h.uid = 3

\* the archives whose first entry has GNU long name or per-entry PAX records
\* before it, and a plain file b behind it
OneShotArchives == 13..17

\* C16: the pending long path, long link and per-entry PAX map are empty from
\* the moment the first entry is delivered, that entry (a GNU sparse one in
\* archive 17) has them applied, and the file b behind it has its own name,
\* no per-entry PAX map, and the uid and linkname that the global PAX header
\* alone gives it (0 and none where there is no global header)
OneShotExtensions ==
  archive \in OneShotArchives =>
    /\ EntriesOf(tar) # {} =>
         /\ tar.gnuLongPath = NULL_STRING
         /\ tar.gnuLongLink = NULL_STRING
         /\ tar.paxHeader = NULL_RECORD
    /\ \A h \in Delivered(1) :
         /\ h.uid = 3
         /\ h.pax # NULL_RECORD
         /\ h.name = IF archive \in {13, 14} THEN <<120, 112>> ELSE <<108, 112>>
         /\ archive = 17 => h.type = "file" /\ h.size = 1024
    /\ \A h \in Delivered(2) :
         /\ h.pax = NULL_RECORD
         /\ h.name = IF archive = 17 THEN <<98>> ELSE <<103, 112>>
         /\ h.linkname = IF archive = 17 THEN NULL_STRING ELSE <<103, 108>>
         /\ h.uid = IF archive = 17 THEN 0 ELSE 1

\* the sparse entry took the long path and the per-entry PAX map, and the
\* file behind it was delivered
OneShotExtensionsWitness ==
  /\ archive = 17
  /\ tar.nentries = 2
  /\ \E h \in Delivered(1) : h.name = <<108, 112>> /\ h.type = "file"
  /\ \E h \in Delivered(2) : h.name = <<98>>

\* the keys a PAX map holds
KeysOf(pax) == {pax[i][1] : i \in DOMAIN pax}

GlobalPaxState ==
  /\ archive \in 13..16 =>
       \A h \in Delivered(1) \cup Delivered(2) : h.gid = 2 /\ h.linkname # NULL_STRING
  /\ archive = 18 =>
       /\ \A h \in Delivered(1) : h.uid = 1 /\ h.gid = 2
       /\ \A h \in Delivered(2) \cup Delivered(3) : h.uid = 5 /\ h.gid = 2
       /\ Delivered(2) # {} =>
            /\ MapGet(tar.paxGlobal, K_uid) = <<53>>
            /\ MapGet(tar.paxGlobal, K_gid) = <<50>>

GlobalPaxKept == KeysOf(tar.paxGlobal) \subseteq KeysOf(tar'.paxGlobal)

\* C17: no step removes a key from the global PAX map; in the archive with
\* the global headers uid=1 gid=2 and, behind its first file, uid=5, the
\* first file has uid 1 and gid 2, the two files behind the second global
\* header have uid 5 and still gid 2, and the map then holds uid=5 and gid=2;
\* both entries behind the global header of the other archives have its gid
\* and a linkname
GlobalPaxAccumulates == []GlobalPaxState /\ [][GlobalPaxKept]_vars

\* the three files were delivered, the last two behind the second global
\* header
GlobalPaxAccumulatesWitness ==
  /\ archive = 18
  /\ tar.nentries = 3
  /\ KeysOf(tar.paxGlobal) = {K_uid, K_gid}
  /\ \E h \in Delivered(3) : h.uid = 5 /\ h.gid = 2

\* the types of the headers that carry extension data
MetaTypes ==
  {"gnu-long-path", "gnu-long-link-path", "gnu-sparse", "pax-header",
   "pax-global-header", "gnu-multivol"}

\* C18: no entry emitted to the listener has the type of an extension header
NoMetaEntries ==
  \A i \in DOMAIN tar.events :
    tar.events[i].e = "entry" => tar.events[i].header.type \notin MetaTypes

\* the sparse maps of the archives 6 and 7 as written into their headers
\* (<<offset, numbytes>>), their real sizes, and where their packed data starts
SparseMaps ==
  [a \in {6, 7} |->
     IF a = 6 THEN <<<<0, 4>>, <<512, 4>>>>
     ELSE <<<<0, 2>>, <<100, 2>>, <<200, 1>>, <<300, 1>>, <<512, 1>>>>]

RealSizes == [a \in {6, 7} |-> IF a = 6 THEN 1024 ELSE 600]

PackedStart == [a \in {6, 7} |-> IF a = 6 THEN 512 ELSE 1024]

\* the packed bytes before the i-th region of the map M
RECURSIVE PackedBefore(_, _)
PackedBefore(M, i) == IF i <= 1 THEN 0 ELSE PackedBefore(M, i - 1) + M[i - 1][2]

\* the byte the reconstructed file holds at position p (from 0): the packed
\* byte of the region that covers p, zero in a hole
Reconstructed(a, p) ==
  LET M == SparseMaps[a]
      covering == {i \in DOMAIN M : p >= M[i][1] /\ p < M[i][1] + M[i][2]}
  IN IF covering = {} THEN 0
     ELSE LET i == CHOOSE i \in covering : TRUE
          IN Archives[a][PackedStart[a] + PackedBefore(M, i) + (p - M[i][1]) + 1]

RoundTrip(a, out) ==
  /\ Len(out) = RealSizes[a]
  /\ \A p \in 0..(Len(out) - 1) : out[p + 1] = Reconstructed(a, p)

\* C19: however the archive is cut into chunks, the bytes of an ended sparse
\* stream are as many as the real size, hold the packed bytes of each region
\* at its offset, and are zero everywhere else
SparseRoundTrip ==
  archive \in {6, 7} =>
    \A k \in DOMAIN tar.streams :
      (tar.streams[k].sparse /\ tar.streams[k].ended) =>
        RoundTrip(archive, BufBytes(tar.streams[k].data, Archives[archive]))

\* three writes of 513 bytes fed the map with five regions, the second
\* ending inside its packed data, and the stream ended
SparseRoundTripWitness ==
  /\ archive = 7
  /\ nwrites = 3
  /\ written = 3 * 513
  /\ Len(tar.streams) = 1
  /\ tar.streams[1].sparse
  /\ tar.streams[1].ended

\* the packed bytes of the whole map M
PackedSize(M) == PackedBefore(M, Len(M) + 1)

\* C20: the sparse header of the archives 6 and 7 gives one entry, of type
\* file and of the real size; while its packed data is read, the bytes still
\* to read and the packed bytes already in the stream make up the sum of the
\* numbytes of the map; and the block read as the next header is the one
\* that lies that sum and its padding behind the sparse header and its
\* extended block
SparseSurfaced ==
  archive \in {6, 7} =>
    /\ tar.nentries <= 1
    /\ \A en \in EntriesOf(tar) :
         /\ en.stream = 1
         /\ en.header.type = "file"
         /\ en.header.size = RealSizes[archive]
    /\ tar.state = STATE_SPARSE_DATA =>
         tar.sparseDataRemaining
           + Cardinality({p \in 1..BufLen(tar.streams[1].data) :
                            BufBytes(tar.streams[1].data, Archives[archive])[p] # 0})
           = PackedSize(SparseMaps[archive])
    /\ Len(tar.headerReads) >= 2 =>
         tar.headerReads[2] =
           Seg(PackedStart[archive] + PackedSize(SparseMaps[archive])
                 + overflow(PackedSize(SparseMaps[archive])),
               PackedStart[archive] + PackedSize(SparseMaps[archive])
                 + overflow(PackedSize(SparseMaps[archive])) + HEADER_SIZE)

\* the entry of the sparse header with an extended block was emitted, and the
\* terminator behind its seven packed bytes and their padding was read
SparseSurfacedWitness ==
  /\ archive = 7
  /\ tar.nentries = 1
  /\ Len(tar.headerReads) = 2
  /\ tar.headerReads[2] = Seg(1536, 2048)

\* C21: an entry delivered with the type file has no name that ends with a
\* slash: such a header is promoted to a directory
TrailingSlashPromoted ==
  \A en \in EntriesOf(tar) :
    (en.header.name # <<>> /\ en.header.name[Len(en.header.name)] = 47)
      => en.header.type # "file"

\* C22: the length of the list is the bytes appended minus those consumed or
\* cleared, its chunks hold those bytes in the order of their appending, and
\* a consume that did not throw returned the n bytes that were at the front,
\* whether they lay in one chunk or across several
QueueFifo ==
  /\ unit.list.length = unit.appended - unit.head
  /\ ConcatBuffers(unit.list.chunks) = Seg(unit.head, unit.appended)
  /\ (unit.last # NULL /\ ~unit.last.threw) =>
       /\ unit.last.n <= unit.last.before.length
       /\ unit.last.data = Seg(unit.head - unit.last.n, unit.head)

\* three bytes were taken across the boundary of two chunks, and bytes of
\* the second chunk are left at the front
QueueFifoWitness ==
  /\ unit.last # NULL
  /\ ~unit.last.threw
  /\ unit.last.n = 3
  /\ Len(unit.last.before.chunks) >= 2
  /\ BufLen(unit.last.before.chunks[1]) = 2
  /\ unit.list.length >= 1

\* C23: a consume of the bare list threw exactly when it asked for more than
\* the list held, and then left the chunks and the length as they were; and
\* in the runs of the decoder no consume call ever threw
ConsumeUnderflow ==
  /\ (unit # NULL /\ unit.last # NULL) =>
       /\ unit.last.threw <=> unit.last.n > unit.last.before.length
       /\ unit.last.threw => unit.list = unit.last.before
  /\ tar # NULL => ~tar.underflow

\* three bytes were asked of a list of two chunks holding two bytes
ConsumeUnderflowWitness ==
  /\ unit # NULL
  /\ unit.last # NULL
  /\ unit.last.threw
  /\ unit.last.n = 3
  /\ unit.list.length = 2
  /\ Len(unit.list.chunks) = 2

\* C24: right after a write() the value it returned is true exactly when
\* the decoder is not locked (an entry parked or emitted whose next() was not
\* called) and end() had not been called before the write; it is false when
\* the decoder is locked after the chunk was processed, also when it was
\* unlocked at the call, and false for every write after end().
WriteHint ==
  unit.op = "write" =>
    /\ unit.hint = (~tar.locked /\ ~unit.ended)
    /\ (unit.ended \/ tar.pendingEntry # NULL \/ LiveEntries(tar) # {}) => unit.hint = FALSE
    /\ (~unit.ended /\ tar.pendingEntry = NULL /\ LiveEntries(tar) = {}) => unit.hint = TRUE

\* the header block of the second member was written into an unlocked decoder
\* (the first entry advanced) and the write returned false: it parked an entry
WriteHintWitness ==
  /\ unit.op = "write"
  /\ ~unit.ended
  /\ unit.hint = FALSE
  /\ tar.nentries = 2
  /\ tar.advanced = {1}

\* C25: a step that writes nothing, is not end() and calls no token for the
\* first time (the next() token of an entry called again) leaves the decoder
\* as it was: it is not unlocked and it parks, emits and reads nothing.
DoubleAdvanceGuarded ==
  [][(written' = written /\ endedAt' = endedAt /\ tar'.advanced = tar.advanced)
       => tar' = tar]_vars

\* the file entries that still hold their reference to the lock
HeldFiles == {k \in DOMAIN iter.files : iter.files[k]}

\* C28: BaseIterator's end is called at most once and release never finds
\* the count corrupted; it has been called only if the iterator has given up
\* its own reference (TarIterator.end) and every file entry has given up the
\* one it retained (create completed or destroy); the count is the number of
\* references held; and once all of them are given up, end has been called
\* and iterator.extract is cleared.
RefCountedShutdown ==
  /\ iter.L.ends <= 1
  /\ ~iter.L.threw
  /\ iter.L.count = Cardinality(HeldFiles) + (IF iter.lock THEN 1 ELSE 0)
  /\ iter.L.ends = 1 => (~iter.lock /\ HeldFiles = {})
  /\ (~iter.lock /\ HeldFiles = {}) => (iter.L.ends = 1 /\ ~iter.extract /\ ~iter.L.extract)

\* both entries of an archive of two files were handed on as file entries and
\* released, the decoder finished, and BaseIterator's end was called
RefCountedShutdownWitness ==
  /\ DOMAIN iter.files = {1, 2}
  /\ HeldFiles = {}
  /\ tar.finishEmitted
  /\ iter.L.ends = 1
  /\ ~iter.extract

\* C26: once the iterator was shut down (TarIterator.end) with an entry
\* stream open, the decoder holds no buffered bytes, is in the end state, and
\* an error has been signalled on the stream that was left open.
ShutdownCancels ==
  (~iter.lock /\ OpenStreams(tar) # {}) =>
    /\ tar.buffer.length = 0
    /\ tar.state = STATE_END
    /\ \A i \in OpenStreams(tar) : tar.streams[i].errors # <<>>

\* C27: no entry is parked or emitted for a header whose typeflag toType
\* does not know (the type of its header is null).
UnknownTypeFatal == \A en \in EntriesOf(tar) : en.header.type # "null"

\* C29: whenever the decoder is in the header state after a call, and
\* whenever it consumed a block as a header inside one, extensionRemaining,
\* paddingRemaining, entryRemaining and sparseDataRemaining are all zero.
HeaderStateClean ==
  /\ tar.state = STATE_HEADER =>
       /\ tar.extensionRemaining = 0
       /\ tar.paddingRemaining = 0
       /\ tar.entryRemaining = 0
       /\ tar.sparseDataRemaining = 0
  /\ tar.headerCounters \subseteq {<<0, 0, 0, 0>>}

\* the first file, its padding and the next header written in three pieces
\* of 511 or 513 bytes, none ending at a block boundary: the second header
\* block was consumed
HeaderStateCleanWitness ==
  /\ archive = 3
  /\ nwrites = 3
  /\ written = 1537
  /\ Len(tar.headerReads) = 2
  /\ tar.nentries = 2

\* C30: overflow(size) is (512 - size mod 512) mod 512: it is in 0..511 and
\* size plus it is a multiple of 512 (it is the least such number).
OverflowPadding ==
  unit.called =>
    /\ unit.padding = (512 - (unit.size % 512)) % 512
    /\ unit.padding \in 0..511
    /\ (unit.size + unit.padding) % 512 = 0
    /\ unit.size = 512 => unit.padding = 0
    /\ unit.size = 100 => unit.padding = 412
    /\ unit.size = 513 => unit.padding = 511
    /\ unit.size = 1 => unit.padding = 511

\* a size of two full blocks: no padding
OverflowPaddingWitness == unit.called /\ unit.size = 1024 /\ unit.padding = 0

\* C31: every block consumed as a header is a block of the archive that
\* starts at a multiple of 512.
BlockAligned ==
  \A i \in DOMAIN tar.headerReads :
     \E n \in 0..(Len(Archives[archive]) \div BLOCK_SIZE) :
        tar.headerReads[i] = Seg(BLOCK_SIZE * n, BLOCK_SIZE * n + BLOCK_SIZE)

\* the maps of the archives 7 and 21 as written into the header and the
\* extended blocks, up to the first empty entry of each block, and where the
\* last extended block ends
ChainMaps ==
  [a \in SparseChainArchives |->
     IF a = 7 THEN <<<<0, 2>>, <<100, 2>>, <<200, 1>>, <<300, 1>>, <<512, 1>>>>
     ELSE [i \in 1..26 |-> <<10 * (i - 1), 1>>]]

ChainEnd == [a \in SparseChainArchives |-> IF a = 7 THEN 1024 ELSE 1536]

\* the map m as the records the decoder keeps
MapEntries(m) == [i \in DOMAIN m |-> [offset |-> m[i][1], numbytes |-> m[i][2]]]

\* the bytes the decoder has taken from the queue: what was written before
\* end() less what is buffered
BytesRead == (IF endedAt >= 0 THEN endedAt ELSE written) - tar.buffer.length

\* C32: until the extended block whose flag is clear has been read no
\* entry is parked or emitted and no stream exists; while the decoder waits
\* for an extended block it has read whole blocks only, holds less than a
\* block, and its map is the four entries of the header followed by the 21
\* entries of every full block read, in archive order; and the map of the
\* stream that is created is the whole map in archive order, the entries
\* after the first empty one of a block left out.
SparseChain ==
  /\ BytesRead < ChainEnd[archive] => (EntriesOf(tar) = {} /\ tar.streams = <<>>)
  /\ tar.state = STATE_SPARSE_EXTENDED =>
       /\ BytesRead \in {BLOCK_SIZE * k : k \in 1..((ChainEnd[archive] \div BLOCK_SIZE) - 1)}
       /\ tar.buffer.length < BLOCK_SIZE
       /\ tar.sparseInfo.entries
            = SubSeq(MapEntries(ChainMaps[archive]), 1,
                     SPARSE_ENTRIES_IN_HEADER
                       + SPARSE_EXTENDED_ENTRIES * ((BytesRead \div BLOCK_SIZE) - 1))
  /\ tar.streams # <<>> =>
       /\ tar.streams[1].sparse
       /\ tar.streams[1].entries = MapEntries(ChainMaps[archive])

\* the chain of two extended blocks written in three pieces that end inside
\* the blocks: the entry was emitted with its map of 26 regions
SparseChainWitness ==
  /\ archive = 21
  /\ nwrites = 3
  /\ written = 1539
  /\ tar.nentries = 1
  /\ Len(tar.streams[1].entries) = 26

\* C33: no 'finish' event follows an 'error' event, and no 'error' or
\* 'entry' event follows a 'finish' event.
ErrorsTerminal ==
  \A i \in DOMAIN tar.events : \A j \in DOMAIN tar.events :
     i < j =>
       /\ tar.events[i].e = "error" => tar.events[j].e # "finish"
       /\ tar.events[i].e = "finish" => tar.events[j].e \notin {"error", "entry"}

(***************************************************************************)
(* decodeOct alone, applied to one numeric field.                          *)
(***************************************************************************)
\* the longest field tried
MaxField == 3

\* the bytes a field is made of: NUL, a control byte, space, the digits 0, 1
\* and 7, and the bytes 0x80, 0xC0 and 0xFF
FieldBytes == {0, 1, 32, 48, 49, 55, 128, 192, 255}

\* unit: the field, whether decodeOct was called with it, and what it returned
DecodeInit ==
  /\ NoDecoder
  /\ \E n \in 1..MaxField : \E field \in [1..n -> FieldBytes] :
       unit = [field |-> field, called |-> FALSE, value |-> 0]

DecodeCall ==
  /\ ~unit.called
  /\ unit' = [unit EXCEPT !.called = TRUE,
                          !.value = decodeOct(unit.field, 0, Len(unit.field))]
  /\ UNCHANGED <<archive, written, nwrites, endedAt, tar, iter>>

DecodeSpec == DecodeInit /\ [][DecodeCall]_vars

\* the big-endian base-256 magnitude of a byte sequence
RECURSIVE Magnitude(_)
Magnitude(bytes) ==
  IF bytes = <<>> THEN 0
  ELSE bytes[1] * 256 ^ (Len(bytes) - 1) + Magnitude(Tail(bytes))

\* a field of spaces, octal digits and NULs
IsOctalField(field) == \A i \in DOMAIN field : field[i] \in {0, 32} \cup 48..55

RECURSIVE DropSpaces(_)
DropSpaces(field) ==
  IF field # <<>> /\ field[1] = 32 THEN DropSpaces(Tail(field)) ELSE field

\* the octal digits of a field up to its first space or NUL, as a number
RECURSIVE OctalUpTo(_, _)
OctalUpTo(field, acc) ==
  IF field = <<>> \/ field[1] \in {0, 32} THEN acc
  ELSE OctalUpTo(Tail(field), 8 * acc + (field[1] - 48))

\* C34: decodeOct of a field whose first byte has bit 0x80 set is the
\* big-endian base-256 magnitude of the bytes after the first, negated when
\* bit 0x40 of the first byte is set; of any other field of spaces, octal
\* digits and NULs it is the octal number after the leading spaces up to the
\* first space or NUL, 0 when there is none.
Base256Decode ==
  unit.called =>
    IF unit.field[1] >= 128
    THEN unit.value = (IF (unit.field[1] \div 64) % 2 = 1
                       THEN 0 - Magnitude(Tail(unit.field))
                       ELSE Magnitude(Tail(unit.field)))
    ELSE IsOctalField(unit.field) => unit.value = OctalUpTo(DropSpaces(unit.field), 0)

(***************************************************************************)
(* decodePax alone, applied to one buffer of PAX records.                   *)
(***************************************************************************)
\* the most records in a buffer
MaxRecords == 3

\* the records buffers are made of: three well-formed ones, "5 a=\n",
\* "6 a=b\n" and "6 b=c\n", and five malformed ones: "0 a=b\n" (zero length),
\* "x a=b\n" (length not a number), " a=b\n" (no length), "-5 b=c\n"
\* (negative length) and "6 abc\n" (no '=')
PaxRecs ==
  << [bytes |-> PaxRecord(<<97>>, <<>>), ok |-> TRUE, key |-> <<97>>, value |-> <<>>],
     [bytes |-> PaxRecord(<<97>>, <<98>>), ok |-> TRUE, key |-> <<97>>, value |-> <<98>>],
     [bytes |-> PaxRecord(<<98>>, <<99>>), ok |-> TRUE, key |-> <<98>>, value |-> <<99>>],
     [bytes |-> <<48, 32, 97, 61, 98, 10>>, ok |-> FALSE],
     [bytes |-> <<120, 32, 97, 61, 98, 10>>, ok |-> FALSE],
     [bytes |-> <<32, 97, 61, 98, 10>>, ok |-> FALSE],
     [bytes |-> <<45, 53, 32, 98, 61, 99, 10>>, ok |-> FALSE],
     [bytes |-> <<54, 32, 97, 98, 99, 10>>, ok |-> FALSE] >>

RECURSIVE PaxBuffer(_)
PaxBuffer(recs) ==
  IF recs = <<>> THEN <<>> ELSE PaxRecs[recs[1]].bytes \o PaxBuffer(Tail(recs))

\* unit: the records of the buffer, whether decodePax was called with the
\* buffer, and what it returned
PaxInit ==
  /\ NoDecoder
  /\ \E n \in 1..MaxRecords : \E recs \in [1..n -> DOMAIN PaxRecs] :
       unit = [recs |-> recs, called |-> FALSE, result |-> <<>>]

PaxCall ==
  /\ ~unit.called
  /\ unit' = [unit EXCEPT !.called = TRUE, !.result = decodePax(PaxBuffer(unit.recs))]
  /\ UNCHANGED <<archive, written, nwrites, endedAt, tar, iter>>

PaxSpec == PaxInit /\ [][PaxCall]_vars

\* the pairs of the well-formed records before the first malformed one, a
\* later record overriding an earlier one for the same key
RECURSIVE WellFormedPairs(_, _)
WellFormedPairs(recs, result) ==
  IF recs = <<>> \/ ~PaxRecs[recs[1]].ok THEN result
  ELSE WellFormedPairs(Tail(recs),
                       MapSet(result, PaxRecs[recs[1]].key, PaxRecs[recs[1]].value))

\* C35: decodePax returns, and what it returns is the key/value pairs of
\* the well-formed records before the first malformed record (no length, a
\* zero, non-numeric or negative length, or no '=') or the end of the
\* buffer, a later record overriding an earlier one for the same key.
PaxStopsCleanly ==
  unit.called =>
    /\ unit.result # DIVERGES
    /\ unit.result = WellFormedPairs(unit.recs, <<>>)

(***************************************************************************)
(* A regular file, a sparse file with data and a sparse file without, fed  *)
(* in chunks of every size to a decoder with or without an 'entry'         *)
(* listener.                                                               *)
(***************************************************************************)
PendingArchives == {2, 6, 22}

PendingInit ==
  /\ archive \in PendingArchives
  /\ written = 0
  /\ nwrites = 0
  /\ endedAt = 0 - 1
  /\ iter = NULL
  /\ unit = NULL
  /\ \E listening \in BOOLEAN :
       tar = NewTarExtract([allowUnknownFormat |-> FALSE], listening)

PendingSpec == PendingInit /\ [][Next]_vars

\* C36: the stream of an entry that is parsed and not yet emitted holds no
\* byte, and a step that leaves the entry pending takes nothing from the
\* queue and pushes nothing to the stream.
NothingBeforeDelivery ==
  /\ [](tar.pendingEntry # NULL =>
          BufLen(tar.streams[tar.pendingEntry.stream].data) = 0)
  /\ [][(tar.pendingEntry # NULL /\ tar'.pendingEntry = tar.pendingEntry) =>
          /\ BytesRead' = BytesRead
          /\ tar'.streams = tar.streams]_vars

\* the 'entry' events that delivered the stream s
Deliveries(t, s) ==
  {i \in DOMAIN t.events : t.events[i].e = "entry" /\ t.events[i].stream = s}

OneResult ==
  /\ \A n \in DOMAIN iter.calls : iter.calls[n] <= 1
  /\ \A n \in DOMAIN iter.calls : (n = Len(iter.calls) /\ iter.calls[n] > 0) => ~iter.waiting

\* C39: no holder of the lock, the iterator or a file entry, has called
\* release() more than once; the count is the number of holders that have
\* not released, so it is never negative, and release() has not thrown; and
\* of the create calls made on a file entry all but the first at least have
\* failed with the 'missing stream' error.
ReleasedOnce ==
  /\ \A k \in DOMAIN iter.releases : iter.releases[k] <= 1
  /\ iter.L.count = Cardinality({k \in DOMAIN iter.releases : iter.releases[k] = 0})
  /\ iter.L.count >= 0
  /\ ~iter.L.threw
  /\ \A k \in DOMAIN iter.creates : iter.missing[k] >= iter.creates[k] - 1

\* create was called twice on the first file entry, the second call failed
\* with 'missing stream', the entry was destroyed as well and the iterator
\* ended: two releases in all, and the count is zero
ReleasedOnceWitness ==
  /\ 1 \in DOMAIN iter.creates
  /\ iter.creates[1] = 2
  /\ iter.missing[1] = 1
  /\ 1 \notin iter.creating
  /\ ~iter.fstream[1]
  /\ iter.releases[1] = 1
  /\ iter.releases[0] = 1
  /\ iter.L.count = 0

\* C40: a write() made after end() leaves the decoder as it was, queue,
\* state and events, invokes its callback and returns false.
WriteAfterEnd ==
  [][(tar.finished /\ unit'.op = "write" /\ written' # written) =>
       /\ tar' = tar
       /\ unit'.hint = FALSE
       /\ unit'.called]_vars

\* a block of the two-member archive 13 was written after end(): the decoder
\* still waits with what it had, the write returned false and called back
WriteAfterEndWitness ==
  /\ archive = 13
  /\ unit.op = "write"
  /\ unit.ended
  /\ unit.called
  /\ unit.hint = FALSE
  /\ endedAt = BLOCK_SIZE
  /\ written = 2 * BLOCK_SIZE
  /\ tar.buffer.length = 0

====
